---- MODULE Spec2Model ----
(***************************************************************************)
(* A model of the Mini-Compiler pipeline: AST -> semantic analysis ->      *)
(* three-address code -> optimizer -> virtual machine, driven by           *)
(* NumCalcCompiler.compile_and_run.                                        *)
(*                                                                         *)
(* Python objects that occur as instruction operands and as run-time       *)
(* values are records [k, n, s]: k is the Python type ("none", "int",      *)
(* "bool", "str", "list", "tuple"), n the number of an int or bool or the  *)
(* address of a list, s the text of a str.  Floats are outside the         *)
(* modelled fragment.                                                      *)
(***************************************************************************)
EXTENDS Integers, Sequences, FiniteSets, TLC

VARIABLES
    source,      \* the source handed to compile_and_run
    lexer,       \* a Lexer object: source, pos, line, column, tokens
    analyzer,    \* a SemanticAnalyzer object: scopes, current_function
    optimize,    \* NumCalcCompiler.optimize
    phase,       \* position inside compile_and_run
    ast,         \* parser.parse() result
    ir,          \* ir_gen.code, as generated
    code,        \* Interpreter.code (ir, or the optimizer's result)
    pc,          \* Interpreter.pc
    variables,   \* Interpreter.variables
    heap,        \* the list objects the interpreter has built, by address
    call_stack,  \* Interpreter.call_stack
    output,      \* Interpreter.output
    steps,       \* instructions executed by Interpreter.execute so far
    last,        \* the machine as it was before the last executed instruction
    called,      \* the heap as it was when each frame of call_stack was pushed
    raised,      \* the exception compile_and_run caught: [type, message]
    result       \* what compile_and_run returned (None while it runs)

vars == <<source, lexer, analyzer, optimize, phase, ast, ir, code, pc, variables, heap,
          call_stack, output, steps, last, called, raised, result>>

(***************************************************************************)
(* Bounds of the model.                                                    *)
(***************************************************************************)
MaxConst == 3
MaxSource == 3
MaxSteps == 45
MaxBody == 1
MaxNest == 2

(***************************************************************************)
(* Python objects.                                                         *)
(***************************************************************************)
None_ == [k |-> "none", n |-> 0, s |-> ""]
PyInt(i) == [k |-> "int", n |-> i, s |-> ""]
PyBool(b) == [k |-> "bool", n |-> IF b THEN 1 ELSE 0, s |-> ""]
PyStr(x) == [k |-> "str", n |-> 0, s |-> x]

\* a list is named by the address of its object in the heap; the pair
\* (start, end) that builtin_substr carries is the two operand texts joined by
\* a comma, n holding the length of the first
PyList(a) == [k |-> "list", n |-> a, s |-> ""]
PyTuple(x, y) == [k |-> "tuple", n |-> Len(x), s |-> x \o "," \o y]

IsNone(o) == o.k = "none"
IsStr(o) == o.k = "str"
IsList(o) == o.k = "list"
\* Python truthiness of an object (bool(o)).
Truthy(o) ==
    CASE o.k = "none" -> FALSE
      [] o.k = "str" -> o.s # ""
      [] OTHER -> o.n # 0

\* str(value), as print uses it.
PyToStr(o) ==
    CASE o.k = "none" -> "None"
      [] o.k = "str" -> o.s
      [] o.k = "bool" -> IF o.n = 1 THEN "True" ELSE "False"
      [] OTHER -> ToString(o.n)

(***************************************************************************)
(* Text of operands: what int(s) and float(s) accept among the strings the *)
(* generator emits (decimal digits; the identifiers inf, nan and infinity  *)
(* parse as floats but not as ints).                                       *)
(***************************************************************************)
Digits == {"0", "1", "2", "3", "4", "5", "6", "7", "8", "9"}
CharAt(s, i) == SubSeq(s, i, i)
IsDigits(s) == Len(s) > 0 /\ \A i \in 1..Len(s) : CharAt(s, i) \in Digits
DigitVal(c) ==
    CASE c = "0" -> 0 [] c = "1" -> 1 [] c = "2" -> 2 [] c = "3" -> 3
      [] c = "4" -> 4 [] c = "5" -> 5 [] c = "6" -> 6 [] c = "7" -> 7
      [] c = "8" -> 8 [] OTHER -> 9
RECURSIVE ParseInt(_)
ParseInt(s) ==
    IF Len(s) = 0 THEN 0
    ELSE 10 * ParseInt(SubSeq(s, 1, Len(s) - 1)) + DigitVal(CharAt(s, Len(s)))
FloatWords == {"inf", "nan", "infinity"}
FloatParses(s) == IsDigits(s) \/ s \in FloatWords
IsQuoted(s) == Len(s) > 0 /\ CharAt(s, 1) = "\"" /\ CharAt(s, Len(s)) = "\""
Unquote(s) == SubSeq(s, 2, Len(s) - 1)
startswith(s, c) == Len(s) > 0 /\ CharAt(s, 1) = c
endswith(s, e) == Len(s) >= Len(e) /\ SubSeq(s, Len(s) - Len(e) + 1, Len(s)) = e

(***************************************************************************)
(* AST nodes (parser.py).  A missing optional child is NoNode; an absent   *)
(* else block is the empty block, which the code treats the same way.      *)
(***************************************************************************)
NoNode == [node |-> "None"]
Literal(v, t) == [node |-> "Literal", value |-> v, type |-> t]
IntLit(i) == Literal(PyInt(i), "int")
BoolLit(b) == Literal(PyBool(b), "bool")
Identifier(x) == [node |-> "Identifier", name |-> x]
BinaryOp(l, o, r) == [node |-> "BinaryOp", left |-> l, operator |-> o, right |-> r]
UnaryOp(o, e) == [node |-> "UnaryOp", operator |-> o, operand |-> e]
VarDeclaration(t, x, e) ==
    [node |-> "VarDeclaration", var_type |-> t, name |-> x, initializer |-> e]
Assignment(x, e) == [node |-> "Assignment", name |-> x, value |-> e]
IfStatement(c, t, e) ==
    [node |-> "IfStatement", condition |-> c, then_block |-> t, else_block |-> e]
WhileStatement(c, b) == [node |-> "WhileStatement", condition |-> c, body |-> b]
ForStatement(i, c, u, b) ==
    [node |-> "ForStatement", init |-> i, condition |-> c, update |-> u, body |-> b]
FunctionDef(t, f, ps, b) ==
    [node |-> "FunctionDef", return_type |-> t, name |-> f, parameters |-> ps,
     body |-> b]
FunctionCall(f, as) == [node |-> "FunctionCall", name |-> f, arguments |-> as]
BuiltInCall(f, as) == [node |-> "BuiltInCall", function |-> f, arguments |-> as]
ArrayLiteral(es) == [node |-> "ArrayLiteral", elements |-> es]
ArrayAccess(a, i) == [node |-> "ArrayAccess", array |-> a, index |-> i]
ArrayAssignment(x, i, v) ==
    [node |-> "ArrayAssignment", array |-> x, index |-> i, value |-> v]
ReturnStatement(e) == [node |-> "ReturnStatement", value |-> e]
PrintStatement(es) == [node |-> "PrintStatement", expressions |-> es]
Program(ss) == [node |-> "Program", statements |-> ss]

(***************************************************************************)
(* IR generator (ir_generator.py).  The generator's state is               *)
(* [code, temp_count, label_count]; generate returns the new state and the *)
(* operand that names the node's value.                                    *)
(***************************************************************************)
ThreeAddressCode(op, a1, a2, res) ==
    [op |-> op, arg1 |-> a1, arg2 |-> a2, result |-> res]

IRGenerator == [code |-> <<>>, temp_count |-> 0, label_count |-> 0]

new_temp(g) ==
    [g |-> [g EXCEPT !.temp_count = @ + 1],
     val |-> PyStr("t" \o ToString(g.temp_count))]

\* new_label without the increment: the same name is handed out again
new_label_reused(g) == [g |-> g, val |-> PyStr("L" \o ToString(g.label_count))]

new_label(g) ==
    [g |-> [g EXCEPT !.label_count = @ + 1],
     val |-> PyStr("L" \o ToString(g.label_count))]

emit(g, op, a1, a2, res) ==
    [g EXCEPT !.code = Append(@, ThreeAddressCode(op, a1, a2, res))]

generate_Literal(node) ==
    IF node.value.k = "str" THEN PyStr("\"" \o node.value.s \o "\"")
    ELSE IF node.value.k = "bool"
         THEN PyStr(IF node.value.n = 1 THEN "true" ELSE "false")
         ELSE PyStr(PyToStr(node.value))

RECURSIVE generate(_, _), generate_block(_, _), generate_params(_, _),
          generate_args(_, _), generate_prints(_, _), generate_elements(_, _, _)

generate_block(stmts, g) ==
    \* for stmt in statements: self.generate(stmt).  The tests g = g and
    \* done = done make the generator before and after a statement be computed
    \* in full before the next statement is visited, as the loop does
    IF stmts = <<>> THEN g
    ELSE LET done == generate(Head(stmts), g).g
         IN IF g = g /\ done = done
            THEN generate_block(Tail(stmts), done) ELSE done

\* the param_decl loop of generate_FunctionDef
generate_params(ps, g) ==
    IF ps = <<>> THEN g
    ELSE generate_params(Tail(ps),
                         emit(g, "param_decl", PyStr(Head(ps)[2]), None_, None_))

\* the param loop of generate_FunctionCall
generate_args(as, g) ==
    IF as = <<>> THEN g
    ELSE LET a == generate(Head(as), g)
         IN generate_args(Tail(as), emit(a.g, "param", a.val, None_, None_))

\* the loop of generate_PrintStatement
generate_prints(es, g) ==
    IF es = <<>> THEN g
    ELSE LET e == generate(Head(es), g)
         IN generate_prints(Tail(es), emit(e.g, "print", e.val, None_, None_))

generate_IfStatement(node, g) ==
    LET c == generate(node.condition, g)
        fl == new_label(c.g)
        el == new_label(fl.g)
        g1 == emit(el.g, "if_false", c.val, None_, fl.val)
        g2 == generate_block(node.then_block, g1)
        g3 == IF node.else_block # <<>>
              THEN emit(g2, "goto", None_, None_, el.val) ELSE g2
        g4 == emit(g3, "label", None_, None_, fl.val)
    IN IF node.else_block # <<>>
       THEN emit(generate_block(node.else_block, g4), "label", None_, None_, el.val)
       ELSE g4

generate_WhileStatement(node, g) ==
    LET sl == new_label(g)
        el == new_label(sl.g)
        g1 == emit(el.g, "label", None_, None_, sl.val)
        c == generate(node.condition, g1)
        g2 == emit(c.g, "if_false", c.val, None_, el.val)
        g3 == generate_block(node.body, g2)
        g4 == emit(g3, "goto", None_, None_, sl.val)
    IN emit(g4, "label", None_, None_, el.val)

generate_ForStatement(node, g) ==
    LET g0 == generate(node.init, g).g
        sl == new_label(g0)
        el == new_label(sl.g)
        g1 == emit(el.g, "label", None_, None_, sl.val)
        c == generate(node.condition, g1)
        g2 == emit(c.g, "if_false", c.val, None_, el.val)
        g3 == generate_block(node.body, g2)
        g4 == generate(node.update, g3).g
        g5 == emit(g4, "goto", None_, None_, sl.val)
    IN \* the body is generated before the update is visited
       IF g3 = g3 THEN emit(g5, "label", None_, None_, el.val) ELSE g3

generate_FunctionDef(node, g) ==
    LET g1 == emit(g, "begin_func", PyStr(node.name), None_, None_)
        g2 == generate_params(node.parameters, g1)
        g3 == generate_block(node.body, g2)
    IN emit(g3, "end_func", PyStr(node.name), None_, None_)

generate_FunctionCall(node, g) ==
    LET g1 == generate_args(node.arguments, g)
        t == new_temp(g1)
    IN [g |-> emit(t.g, "call", PyStr(node.name), PyInt(Len(node.arguments)), t.val),
        val |-> t.val]

\* the temp is taken before the arguments are generated
generate_BuiltInCall(node, g) ==
    LET func == node.function
        temp == new_temp(g)
        first == generate(node.arguments[1], temp.g)
        second == generate(node.arguments[2], first.g)
        third == generate(node.arguments[3], second.g)
    IN CASE func \in {"len", "input"} ->
              [g |-> emit(first.g, "builtin_" \o func, first.val, None_, temp.val),
               val |-> temp.val]
         [] func \in {"random", "concat"} ->
              [g |-> emit(second.g, "builtin_" \o func, first.val, second.val,
                          temp.val),
               val |-> temp.val]
         [] func = "substr" ->
              [g |-> emit(third.g, "builtin_substr", first.val,
                          PyTuple(second.val.s, third.val.s), temp.val),
               val |-> temp.val]
         [] OTHER -> [g |-> temp.g, val |-> temp.val]

\* the array_append loop of generate_ArrayLiteral
generate_elements(es, temp, g) ==
    IF es = <<>> THEN g
    ELSE LET e == generate(Head(es), g)
         IN generate_elements(Tail(es), temp,
                              emit(e.g, "array_append", e.val, None_, temp))

generate_ArrayLiteral(node, g) ==
    LET temp == new_temp(g)
        g1 == emit(temp.g, "array_init", None_, None_, temp.val)
    IN [g |-> generate_elements(node.elements, temp.val, g1), val |-> temp.val]

generate_ArrayAccess(node, g) ==
    LET array_val == generate(node.array, g)
        index_val == generate(node.index, array_val.g)
        temp == new_temp(index_val.g)
    IN [g |-> emit(temp.g, "array_get", array_val.val, index_val.val, temp.val),
        val |-> temp.val]

generate_ArrayAssignment(node, g) ==
    LET index_val == generate(node.index, g)
        value_val == generate(node.value, index_val.g)
    IN [g |-> emit(value_val.g, "array_set", index_val.val, value_val.val,
                   PyStr(node.array)),
        val |-> None_]

generate(node, g) ==
    CASE node.node = "Program" ->
           [g |-> generate_block(node.statements, g), val |-> None_]
      [] node.node = "VarDeclaration" ->
           IF node.initializer # NoNode
           THEN LET v == generate(node.initializer, g)
                IN [g |-> emit(v.g, "assign", v.val, None_, PyStr(node.name)),
                    val |-> None_]
           ELSE [g |-> g, val |-> None_]
      [] node.node = "Assignment" ->
           LET v == generate(node.value, g)
           IN [g |-> emit(v.g, "assign", v.val, None_, PyStr(node.name)),
               val |-> None_]
      [] node.node = "BinaryOp" ->
           LET l == generate(node.left, g)
               r == generate(node.right, l.g)
               t == new_temp(r.g)
           IN [g |-> emit(t.g, node.operator, l.val, r.val, t.val), val |-> t.val]
      [] node.node = "UnaryOp" ->
           LET e == generate(node.operand, g)
               t == new_temp(e.g)
           IN [g |-> emit(t.g, node.operator, e.val, None_, t.val), val |-> t.val]
      [] node.node = "Literal" -> [g |-> g, val |-> generate_Literal(node)]
      [] node.node = "Identifier" -> [g |-> g, val |-> PyStr(node.name)]
      [] node.node = "IfStatement" ->
           [g |-> generate_IfStatement(node, g), val |-> None_]
      [] node.node = "WhileStatement" ->
           [g |-> generate_WhileStatement(node, g), val |-> None_]
      [] node.node = "ForStatement" ->
           [g |-> generate_ForStatement(node, g), val |-> None_]
      [] node.node = "FunctionDef" ->
           [g |-> generate_FunctionDef(node, g), val |-> None_]
      [] node.node = "FunctionCall" -> generate_FunctionCall(node, g)
      [] node.node = "BuiltInCall" -> generate_BuiltInCall(node, g)
      [] node.node = "ArrayLiteral" -> generate_ArrayLiteral(node, g)
      [] node.node = "ArrayAccess" -> generate_ArrayAccess(node, g)
      [] node.node = "ArrayAssignment" -> generate_ArrayAssignment(node, g)
      [] node.node = "ReturnStatement" ->
           IF node.value # NoNode
           THEN LET v == generate(node.value, g)
                IN [g |-> emit(v.g, "return", v.val, None_, None_), val |-> None_]
           ELSE [g |-> emit(g, "return", None_, None_, None_), val |-> None_]
      [] node.node = "PrintStatement" ->
           [g |-> generate_prints(node.expressions, g), val |-> None_]

\* IRGenerator().generate(ast), then .code
GenerateIR(a) == generate(a, IRGenerator).g.code

(***************************************************************************)
(* Semantic analyzer (semantic_analyzer.py).  The chain of SymbolTables    *)
(* from the global scope to current_scope is the sequence `scopes`; the    *)
(* analyzer's state is [scopes, current_function, err], where err is the   *)
(* message of the SemanticError raised, "" while none was raised.          *)
(***************************************************************************)
Symbol(st, dt, ps) == [type |-> st, data_type |-> dt, parameters |-> ps]

\* a SymbolTable's symbols dict is a function from names to Symbols
EmptyDict == [x \in {} |-> Symbol("variable", "int", <<>>)]

SemanticAnalyzer == [scopes |-> <<EmptyDict>>, current_function |-> NoNode, err |-> ""]

current_scope(a) == a.scopes[Len(a.scopes)]

RECURSIVE lookup_from(_, _, _)
lookup_from(scopes, i, name) ==
    IF i = 0 THEN NoNode
    ELSE IF name \in DOMAIN scopes[i] THEN scopes[i][name]
         ELSE lookup_from(scopes, i - 1, name)

\* SymbolTable.lookup on current_scope
lookup(a, name) == lookup_from(a.scopes, Len(a.scopes), name)

\* a define that refuses a name bound anywhere on the chain
define_in_chain(a, name, sym) ==
    IF lookup(a, name) # NoNode
    THEN [a EXCEPT !.err = "Redeclaration of '" \o name \o "' in the same scope"]
    ELSE [a EXCEPT !.scopes[Len(a.scopes)] =
             [x \in DOMAIN @ \cup {name} |-> IF x = name THEN sym ELSE @[x]]]

\* SymbolTable.define on current_scope
define(a, name, sym) ==
    IF name \in DOMAIN current_scope(a)
    THEN [a EXCEPT !.err = "Redeclaration of '" \o name \o "' in the same scope"]
    ELSE [a EXCEPT !.scopes[Len(a.scopes)] =
             [x \in DOMAIN @ \cup {name} |-> IF x = name THEN sym ELSE @[x]]]

enter_scope(a) == [a EXCEPT !.scopes = Append(@, EmptyDict)]
exit_scope(a) ==
    IF Len(a.scopes) > 1
    THEN [a EXCEPT !.scopes = SubSeq(@, 1, Len(@) - 1)] ELSE a

is_numeric(t) == t \in {"int", "float"}
is_compatible_type(expected, actual) ==
    expected = actual \/ (expected = "float" /\ actual = "int")

error(a, msg) == [a |-> [a EXCEPT !.err = msg], type |-> "error"]
typed(a, t) == [a |-> a, type |-> t]

RECURSIVE analyze(_, _), analyze_block(_, _), analyze_args(_, _, _, _),
          analyze_exprs(_, _), analyze_elements(_, _, _)

\* for stmt in block: self.analyze(stmt), stopping at the first error
analyze_block(stmts, a) ==
    IF stmts = <<>> \/ a.err # "" THEN a
    ELSE analyze_block(Tail(stmts), analyze(Head(stmts), a).a)

analyze_exprs(es, a) ==
    IF es = <<>> \/ a.err # "" THEN a
    ELSE analyze_exprs(Tail(es), analyze(Head(es), a).a)

\* the argument loop of analyze_FunctionCall, from argument i on
analyze_args(node, ps, i, a) ==
    IF i > Len(node.arguments) THEN a
    ELSE LET t == analyze(node.arguments[i], a)
         IN IF t.a.err # "" THEN t.a
            ELSE IF ~is_compatible_type(ps[i][1], t.type)
                 THEN error(a, "Argument " \o ToString(i) \o " of function '" \o node.name
                                \o "' expects " \o ps[i][1] \o ", got " \o t.type).a
                 ELSE analyze_args(node, ps, i + 1, a)

analyze_VarDeclaration(node, a) ==
    IF node.name \in DOMAIN current_scope(a)
    THEN error(a, "Variable '" \o node.name \o "' already declared in this scope")
    ELSE LET t == IF node.initializer # NoNode
                  THEN analyze(node.initializer, a) ELSE typed(a, "void")
         IN IF t.a.err # "" THEN t
            ELSE IF node.initializer # NoNode
                    /\ ~is_compatible_type(node.var_type, t.type)
                 THEN error(a, "Type mismatch: cannot assign " \o t.type \o " to "
                                 \o node.var_type \o " in declaration of '"
                                 \o node.name \o "'")
                 ELSE typed(define(a, node.name,
                                   Symbol("variable", node.var_type, <<>>)), "void")

analyze_Assignment(node, a) ==
    LET symbol == lookup(a, node.name)
    IN IF symbol = NoNode
       THEN error(a, "Undefined variable '" \o node.name \o "'")
       ELSE IF symbol.type # "variable"
       THEN error(a, "'" \o node.name \o "' is not a variable")
       ELSE LET t == analyze(node.value, a)
            IN IF t.a.err # "" THEN t
               ELSE IF ~is_compatible_type(symbol.data_type, t.type)
                    THEN error(a, "Type mismatch: cannot assign " \o t.type \o " to "
                                    \o symbol.data_type \o " variable '"
                                    \o node.name \o "'")
                    ELSE typed(a, "void")

analyze_BinaryOp(node, a) ==
    LET l == analyze(node.left, a)
        r == analyze(node.right, a)
    IN IF l.a.err # "" THEN l
       ELSE IF r.a.err # "" THEN r
       ELSE IF node.operator \in {"+", "-", "*", "/", "%", "**"}
       THEN IF ~is_numeric(l.type) \/ ~is_numeric(r.type)
            THEN error(a, "Operator '" \o node.operator \o "' requires numeric operands, got "
                          \o l.type \o " and " \o r.type)
            ELSE typed(a, IF l.type = "float" \/ r.type = "float"
                          THEN "float" ELSE "int")
       ELSE IF node.operator \in {"<", ">", "<=", ">="}
       THEN IF ~is_numeric(l.type) \/ ~is_numeric(r.type)
            THEN error(a, "Operator '" \o node.operator \o "' requires numeric operands, got "
                          \o l.type \o " and " \o r.type)
            ELSE typed(a, "bool")
       ELSE IF node.operator \in {"==", "!="}
       THEN IF ~is_compatible_type(l.type, r.type)
            THEN error(a, "Cannot compare " \o l.type \o " with " \o r.type)
            ELSE typed(a, "bool")
       ELSE IF node.operator \in {"and", "or"}
       THEN IF l.type # "bool" \/ r.type # "bool"
            THEN error(a, "Logical operator '" \o node.operator
                          \o "' requires boolean operands, got "
                          \o l.type \o " and " \o r.type)
            ELSE typed(a, "bool")
       ELSE error(a, "Unknown binary operator: " \o node.operator)

analyze_UnaryOp(node, a) ==
    LET t == analyze(node.operand, a)
    IN IF t.a.err # "" THEN t
       ELSE IF node.operator = "-"
       THEN IF ~is_numeric(t.type)
            THEN error(a, "Unary '-' requires numeric operand, got " \o t.type)
            ELSE typed(a, t.type)
       ELSE IF node.operator = "not"
       THEN IF t.type # "bool"
            THEN error(a, "Operator 'not' requires boolean operand, got " \o t.type)
            ELSE typed(a, "bool")
       ELSE error(a, "Unknown unary operator: " \o node.operator)

analyze_Identifier(node, a) ==
    LET symbol == lookup(a, node.name)
    IN IF symbol = NoNode
       THEN error(a, "Undefined variable '" \o node.name \o "'")
       ELSE IF symbol.type # "variable"
       THEN error(a, "'" \o node.name \o "' is not a variable")
       ELSE typed(a, symbol.data_type)

analyze_IfStatement(node, a) ==
    LET c == analyze(node.condition, a)
    IN IF c.a.err # "" THEN c
       ELSE IF c.type # "bool"
       THEN error(a, "If condition must be boolean, got " \o c.type)
       ELSE LET t == analyze_block(node.then_block, enter_scope(a))
            IN IF t.err # "" THEN typed(t, "error")
               ELSE IF node.else_block # <<>>
                    THEN LET e == analyze_block(node.else_block,
                                                enter_scope(exit_scope(t)))
                         IN IF e.err # "" THEN typed(e, "error")
                            ELSE typed(exit_scope(e), "void")
                    ELSE typed(exit_scope(t), "void")

analyze_WhileStatement(node, a) ==
    LET c == analyze(node.condition, a)
    IN IF c.a.err # "" THEN c
       ELSE IF c.type # "bool"
       THEN error(a, "While condition must be boolean, got " \o c.type)
       ELSE LET b == analyze_block(node.body, enter_scope(a))
            IN IF b.err # "" THEN typed(b, "error")
               ELSE typed(exit_scope(b), "void")

analyze_ForStatement(node, a) ==
    LET i == analyze(node.init, enter_scope(a))
        c == analyze(node.condition, i.a)
        u == analyze(node.update, i.a)
        b == analyze_block(node.body, i.a)
    IN IF i.a.err # "" THEN i
       ELSE IF c.a.err # "" THEN c
       ELSE IF c.type # "bool"
       THEN error(i.a, "For loop condition must be boolean, got " \o c.type)
       ELSE IF u.a.err # "" THEN u
       ELSE IF b.err # "" THEN typed(b, "error")
       ELSE typed(exit_scope(b), "void")

\* whether the body holds a ReturnStatement at any depth of its if, while and
\* for statements
RECURSIVE has_return_nested(_)
has_return_nested(body) ==
    \E i \in 1..Len(body) :
        CASE body[i].node = "ReturnStatement" -> TRUE
          [] body[i].node = "IfStatement" ->
               has_return_nested(body[i].then_block)
               \/ has_return_nested(body[i].else_block)
          [] body[i].node \in {"WhileStatement", "ForStatement"} ->
               has_return_nested(body[i].body)
          [] OTHER -> FALSE

\* whether a direct child of the body is a ReturnStatement
has_return(body) == \E i \in 1..Len(body) : body[i].node = "ReturnStatement"

RECURSIVE define_params(_, _)
define_params(ps, a) ==
    IF ps = <<>> \/ a.err # "" THEN a
    ELSE define_params(Tail(ps),
                       define(a, Head(ps)[2], Symbol("variable", Head(ps)[1], <<>>)))

\* analyze_FunctionDef that leaves current_function set to the definition
analyze_FunctionDef_keeping(node, a) ==
    IF node.name \in DOMAIN current_scope(a)
    THEN error(a, "Function '" \o node.name \o "' already declared")
    ELSE LET a1 == define(a, node.name,
                          Symbol("function", node.return_type, node.parameters))
             a2 == [enter_scope(a1) EXCEPT !.current_function = node]
             a3 == define_params(node.parameters, a2)
             a4 == analyze_block(node.body, a3)
         IN IF a3.err # "" THEN typed(a3, "error")
            ELSE IF a4.err # "" THEN typed(a4, "error")
            ELSE IF node.return_type # "void" /\ ~has_return(node.body)
            THEN error(a4, "Function '" \o node.name \o "' must return a value of type "
                            \o node.return_type)
            ELSE typed(exit_scope(a4), "void")

analyze_FunctionDef(node, a) ==
    IF node.name \in DOMAIN current_scope(a)
    THEN error(a, "Function '" \o node.name \o "' already declared")
    ELSE LET a1 == define(a, node.name,
                          Symbol("function", node.return_type, node.parameters))
             a2 == [enter_scope(a1) EXCEPT !.current_function = node]
             a3 == define_params(node.parameters, a2)
             a4 == analyze_block(node.body, a3)
         IN IF a3.err # "" THEN typed(a3, "error")
            ELSE IF a4.err # "" THEN typed(a4, "error")
            ELSE IF node.return_type # "void" /\ ~has_return(node.body)
            THEN error(a4, "Function '" \o node.name \o "' must return a value of type "
                            \o node.return_type)
            ELSE typed(exit_scope([a4 EXCEPT !.current_function =
                                       a.current_function]), "void")

analyze_FunctionCall(node, a) ==
    LET symbol == lookup(a, node.name)
    IN IF symbol = NoNode
       THEN error(a, "Undefined function '" \o node.name \o "'")
       ELSE IF symbol.type # "function"
       THEN error(a, "'" \o node.name \o "' is not a function")
       ELSE IF Len(node.arguments) # Len(symbol.parameters)
       THEN error(a, "Function '" \o node.name \o "' expects "
                      \o ToString(Len(symbol.parameters)) \o " arguments, got "
                      \o ToString(Len(node.arguments)))
       ELSE LET r == analyze_args(node, symbol.parameters, 1, a)
            IN IF r.err # "" THEN typed(r, "error")
               ELSE typed(a, symbol.data_type)

analyze_ReturnStatement(node, a) ==
    IF a.current_function = NoNode
    THEN error(a, "Return statement outside function")
    ELSE IF node.value # NoNode
    THEN LET t == analyze(node.value, a)
         IN IF t.a.err # "" THEN t
            ELSE IF ~is_compatible_type(a.current_function.return_type, t.type)
                 THEN error(a, "Return type mismatch: expected "
                               \o a.current_function.return_type \o ", got " \o t.type)
                 ELSE typed(a, "void")
    ELSE IF a.current_function.return_type # "void"
         THEN error(a, "Function must return a value of type "
                        \o a.current_function.return_type)
         ELSE typed(a, "void")

analyze_BuiltInCall(node, a) ==
    LET func == node.function
        args == node.arguments
        got == ToString(Len(args))
        first == analyze(args[1], a)
        second == analyze(args[2], a)
        third == analyze(args[3], a)
    IN CASE func = "len" ->
              IF Len(args) # 1
              THEN error(a, "len() expects 1 argument, got " \o got)
              ELSE IF first.a.err # "" THEN first
              ELSE IF ~(endswith(first.type, "[]") \/ first.type = "string")
              THEN error(a, "len() requires array or string, got " \o first.type)
              ELSE typed(a, "int")
         [] func = "random" ->
              IF Len(args) # 2
              THEN error(a, "random() expects 2 arguments, got " \o got)
              ELSE IF first.a.err # "" THEN first
              ELSE IF second.a.err # "" THEN second
              ELSE IF ~is_numeric(first.type) \/ ~is_numeric(second.type)
              THEN error(a, "random() requires numeric arguments, got "
                             \o first.type \o " and " \o second.type)
              ELSE typed(a, "int")
         [] func = "substr" ->
              IF Len(args) # 3
              THEN error(a, "substr() expects 3 arguments, got " \o got)
              ELSE IF first.a.err # "" THEN first
              ELSE IF second.a.err # "" THEN second
              ELSE IF third.a.err # "" THEN third
              ELSE IF first.type # "string"
              THEN error(a, "substr() first argument must be string, got "
                             \o first.type)
              ELSE IF second.type # "int" \/ third.type # "int"
              THEN error(a, "substr() indices must be int, got "
                             \o second.type \o " and " \o third.type)
              ELSE typed(a, "string")
         [] func = "concat" ->
              IF Len(args) # 2
              THEN error(a, "concat() expects 2 arguments, got " \o got)
              ELSE IF first.a.err # "" THEN first
              ELSE IF second.a.err # "" THEN second
              ELSE IF first.type # "string" \/ second.type # "string"
              THEN error(a, "concat() requires string arguments, got "
                             \o first.type \o " and " \o second.type)
              ELSE typed(a, "string")
         [] func = "input" ->
              IF Len(args) # 1
              THEN error(a, "input() expects 1 argument, got " \o got)
              ELSE IF first.a.err # "" THEN first
              ELSE IF first.type # "string"
              THEN error(a, "input() prompt must be string, got " \o first.type)
              ELSE typed(a, "string")
         [] OTHER -> error(a, "Unknown built-in function: " \o func)

\* first_type.replace('[]', '')
RECURSIVE without_brackets(_)
without_brackets(t) ==
    IF Len(t) < 2 THEN t
    ELSE IF SubSeq(t, 1, 2) = "[]" THEN without_brackets(SubSeq(t, 3, Len(t)))
    ELSE SubSeq(t, 1, 1) \o without_brackets(SubSeq(t, 2, Len(t)))

\* the loop of analyze_ArrayLiteral over the elements after the first
analyze_elements(es, first_type, a) ==
    IF es = <<>> THEN a
    ELSE LET t == analyze(Head(es), a)
         IN IF t.a.err # "" THEN t.a
            ELSE IF ~is_compatible_type(first_type, t.type)
            THEN error(a, "Array elements must have consistent types, got "
                          \o first_type \o " and " \o t.type).a
            ELSE analyze_elements(Tail(es), first_type, a)

analyze_ArrayLiteral(node, a) ==
    IF node.elements = <<>> THEN typed(a, "int[]")
    ELSE LET first == analyze(node.elements[1], a)
             rest == analyze_elements(Tail(node.elements), first.type, a)
         IN IF first.a.err # "" THEN first
            ELSE IF rest.err # "" THEN typed(rest, "error")
            ELSE typed(a, without_brackets(first.type) \o "[]")

analyze_ArrayAccess(node, a) ==
    LET array == analyze(node.array, a)
        index == analyze(node.index, a)
    IN IF array.a.err # "" THEN array
       ELSE IF ~endswith(array.type, "[]")
       THEN error(a, "Cannot index non-array type '" \o array.type \o "'")
       ELSE IF index.a.err # "" THEN index
       ELSE IF index.type # "int"
       THEN error(a, "Array index must be int, got " \o index.type)
       ELSE typed(a, SubSeq(array.type, 1, Len(array.type) - 2))

analyze_ArrayAssignment(node, a) ==
    LET symbol == lookup(a, node.array)
        array_type == symbol.data_type
        index == analyze(node.index, a)
        value == analyze(node.value, a)
        element_type == SubSeq(array_type, 1, Len(array_type) - 2)
    IN IF symbol = NoNode
       THEN error(a, "Undefined array '" \o node.array \o "'")
       ELSE IF ~endswith(array_type, "[]")
       THEN error(a, "'" \o node.array \o "' is not an array")
       ELSE IF index.a.err # "" THEN index
       ELSE IF index.type # "int"
       THEN error(a, "Array index must be int, got " \o index.type)
       ELSE IF value.a.err # "" THEN value
       ELSE IF ~is_compatible_type(element_type, value.type)
       THEN error(a, "Type mismatch: cannot assign " \o value.type \o " to "
                      \o element_type \o " array element")
       ELSE typed(a, "void")

analyze(node, a) ==
    CASE node.node = "Program" -> typed(analyze_block(node.statements, a), "void")
      [] node.node = "VarDeclaration" -> analyze_VarDeclaration(node, a)
      [] node.node = "Assignment" -> analyze_Assignment(node, a)
      [] node.node = "BinaryOp" -> analyze_BinaryOp(node, a)
      [] node.node = "UnaryOp" -> analyze_UnaryOp(node, a)
      [] node.node = "Literal" -> typed(a, node.type)
      [] node.node = "Identifier" -> analyze_Identifier(node, a)
      [] node.node = "IfStatement" -> analyze_IfStatement(node, a)
      [] node.node = "WhileStatement" -> analyze_WhileStatement(node, a)
      [] node.node = "ForStatement" -> analyze_ForStatement(node, a)
      [] node.node = "FunctionDef" -> analyze_FunctionDef(node, a)
      [] node.node = "FunctionCall" -> analyze_FunctionCall(node, a)
      [] node.node = "BuiltInCall" -> analyze_BuiltInCall(node, a)
      [] node.node = "ArrayLiteral" -> analyze_ArrayLiteral(node, a)
      [] node.node = "ArrayAccess" -> analyze_ArrayAccess(node, a)
      [] node.node = "ArrayAssignment" -> analyze_ArrayAssignment(node, a)
      [] node.node = "ReturnStatement" -> analyze_ReturnStatement(node, a)
      [] node.node = "PrintStatement" ->
           typed(analyze_exprs(node.expressions, a), "void")
      [] OTHER -> error(a, "No analysis method for " \o node.node)

\* SemanticAnalyzer().analyze(ast): the error raised, "" when none
SemanticErrorOf(a) == analyze(a, SemanticAnalyzer).a.err

\* analyzer = SemanticAnalyzer(); analyzer.analyze(ast); analyzer.analyze(ast):
\* the error the second call raises.  The first call leaves its scopes and
\* current_function behind, also when it ended by raising.
SecondSemanticErrorOf(a) ==
    analyze(a, [analyze(a, SemanticAnalyzer).a EXCEPT !.err = ""]).a.err

(***************************************************************************)
(* Python's operators on the modelled objects: [raised, val].  bool is a   *)
(* subclass of int; // floors; % takes the sign of the divisor.  An        *)
(* operation the fragment has no value for (a negative power, an ordering  *)
(* of strings) is reported as raised.                                      *)
(***************************************************************************)
IsNum(o) == o.k \in {"int", "bool"}
PyEq(l, r) ==
    IF IsNum(l) /\ IsNum(r) THEN l.n = r.n
    ELSE l.k = r.k /\ l.s = r.s
PyFloorDiv(a, b) == IF b > 0 THEN a \div b ELSE (0 - a) \div (0 - b)
PyMod(a, b) == IF b > 0 THEN a % b ELSE 0 - ((0 - a) % (0 - b))
RECURSIVE PyPow(_, _)
PyPow(a, b) == IF b = 0 THEN 1 ELSE a * PyPow(a, b - 1)
Raised == [raised |-> TRUE, val |-> None_]
Value(v) == [raised |-> FALSE, val |-> v]
PyOp(op, l, r) ==
    CASE op = "==" -> Value(PyBool(PyEq(l, r)))
      [] op = "!=" -> Value(PyBool(~PyEq(l, r)))
      [] op = "+" /\ IsStr(l) /\ IsStr(r) -> Value(PyStr(l.s \o r.s))
      [] ~(IsNum(l) /\ IsNum(r)) -> Raised
      [] op = "+" -> Value(PyInt(l.n + r.n))
      [] op = "-" -> Value(PyInt(l.n - r.n))
      [] op = "*" -> Value(PyInt(l.n * r.n))
      [] op = "//" -> IF r.n = 0 THEN Raised ELSE Value(PyInt(PyFloorDiv(l.n, r.n)))
      [] op = "%" -> IF r.n = 0 THEN Raised ELSE Value(PyInt(PyMod(l.n, r.n)))
      [] op = "**" -> IF r.n < 0 THEN Raised ELSE Value(PyInt(PyPow(l.n, r.n)))
      [] op = "<" -> Value(PyBool(l.n < r.n))
      [] op = ">" -> Value(PyBool(l.n > r.n))
      [] op = "<=" -> Value(PyBool(l.n <= r.n))
      [] op = ">=" -> Value(PyBool(l.n >= r.n))
      [] OTHER -> Raised

(***************************************************************************)
(* Optimizer (optimizer.py).  A dict is a function from names to values.   *)
(***************************************************************************)
ControlOps == {"label", "goto", "if_false", "if_true"}
FoldedOps == {"+", "-", "*", "/", "%", "**", "<", ">", "<=", ">=", "==", "!="}
NoDict == [x \in {} |-> None_]
DictSet(d, key, v) == [x \in DOMAIN d \cup {key} |-> IF x = key THEN v ELSE d[x]]
DictDel(d, key) == [x \in DOMAIN d \ {key} |-> d[x]]
\* `o in d` for an operand o
InDict(o, d) == IsStr(o) /\ o.s \in DOMAIN d

is_constant(value) ==
    IF value.k \in {"int", "bool"} THEN TRUE
    ELSE IF IsStr(value) THEN IsQuoted(value.s) \/ FloatParses(value.s)
    ELSE FALSE

get_constant_value(value) ==
    IF value.k \in {"int", "bool"} THEN value
    ELSE IF IsStr(value)
    THEN IF IsQuoted(value.s) THEN PyStr(Unquote(value.s))
         ELSE IF IsDigits(value.s) THEN PyInt(ParseInt(value.s)) ELSE None_
    ELSE None_

\* evaluate_operation with a `/` that rounds towards zero
evaluate_operation_truncating(op, left, right) ==
    IF op = "/"
    THEN IF ~(IsNum(left) /\ IsNum(right)) \/ right.n = 0 THEN Raised
         ELSE LET abs(i) == IF i < 0 THEN 0 - i ELSE i
                  q == abs(left.n) \div abs(right.n)
              IN Value(PyInt(IF (left.n < 0) = (right.n < 0) THEN q ELSE 0 - q))
    ELSE IF op \in FoldedOps THEN PyOp(op, left, right)
    ELSE Raised

evaluate_operation(op, left, right) ==
    IF op = "/" THEN PyOp("//", left, right)
    ELSE IF op \in FoldedOps THEN PyOp(op, left, right)
    ELSE Raised

\* the operand's constant, as the folding branches look it up
constant_of(arg, constants) ==
    IF InDict(arg, constants) THEN constants[arg.s]
    ELSE IF is_constant(arg) THEN get_constant_value(arg) ELSE None_

\* `del constants[instr.result]` when present
forget(instr, d) ==
    IF Truthy(instr.result) /\ InDict(instr.result, d)
    THEN DictDel(d, instr.result.s) ELSE d

\* one iteration of constant_folding's loop: the instruction appended and the
\* constants table afterwards
fold_instr(instr, constants) ==
    IF instr.op \in ControlOps THEN [instr |-> instr, table |-> NoDict]
    ELSE IF instr.op = "assign"
    THEN IF is_constant(instr.arg1)
         THEN [instr |-> instr,
               table |-> DictSet(constants, instr.result.s,
                                 get_constant_value(instr.arg1))]
         ELSE IF InDict(instr.arg1, constants)
         THEN LET value == constants[instr.arg1.s]
              IN [instr |-> ThreeAddressCode("assign", value, None_, instr.result),
                  table |-> DictSet(constants, instr.result.s, value)]
         ELSE [instr |-> instr, table |-> forget(instr, constants)]
    ELSE IF instr.op \in FoldedOps
    THEN LET arg1_val == constant_of(instr.arg1, constants)
             arg2_val == constant_of(instr.arg2, constants)
             r == evaluate_operation(instr.op, arg1_val, arg2_val)
         IN IF ~IsNone(arg1_val) /\ ~IsNone(arg2_val)
            THEN IF r.raised THEN [instr |-> instr, table |-> constants]
                 ELSE [instr |-> ThreeAddressCode("assign", r.val, None_, instr.result),
                       table |-> DictSet(constants, instr.result.s, r.val)]
            ELSE [instr |-> instr, table |-> forget(instr, constants)]
    ELSE IF instr.op \in {"-", "not"}
    THEN LET arg_val == constant_of(instr.arg1, constants)
             result_val == IF instr.op = "-"
                           THEN PyOp("-", PyInt(0), arg_val).val
                           ELSE PyBool(~Truthy(arg_val))
         IN IF ~IsNone(arg_val)
            THEN [instr |-> ThreeAddressCode("assign", result_val, None_, instr.result),
                  table |-> DictSet(constants, instr.result.s, result_val)]
            ELSE [instr |-> instr, table |-> constants]
    ELSE [instr |-> instr, table |-> forget(instr, constants)]

RECURSIVE fold_from(_, _, _, _)
fold_from(c, lo, hi, st) ==
    \* the loop over instructions lo..hi, st = the optimized list and the
    \* constants table so far.  The range is split and st is computed in full
    \* on entry (st = st), so that evaluation nests shallowly
    IF st # st \/ lo > hi THEN st
    ELSE IF lo = hi
    THEN LET r == fold_instr(c[lo], st.table)
         IN [optimized |-> Append(st.optimized, r.instr), table |-> r.table]
    ELSE LET mid == (lo + hi) \div 2
         IN fold_from(c, mid + 1, hi, fold_from(c, lo, mid, st))

constant_folding(c) ==
    fold_from(c, 1, Len(c), [optimized |-> <<>>, table |-> NoDict]).optimized

\* the constants dict when the loop of constant_folding reaches instruction i
constants_at(c, i) ==
    fold_from(c, 1, i - 1, [optimized |-> <<>>, table |-> NoDict]).table

\* copies.get(arg, arg)
copy_of(arg, copies) == IF InDict(arg, copies) THEN PyStr(copies[arg.s]) ELSE arg

\* one iteration of copy_propagation's loop
propagate_instr(instr, copies) ==
    IF instr.op \in ControlOps THEN [instr |-> instr, table |-> NoDict]
    ELSE IF instr.op = "assign" /\ IsStr(instr.arg1) /\ ~is_constant(instr.arg1)
    THEN [instr |-> instr, table |-> DictSet(copies, instr.result.s, instr.arg1.s)]
    ELSE IF instr.op \in FoldedOps \cup {"and", "or"}
    THEN [instr |-> ThreeAddressCode(instr.op, copy_of(instr.arg1, copies),
                                     copy_of(instr.arg2, copies), instr.result),
          table |-> forget(instr, copies)]
    ELSE IF instr.op \in {"-", "not"}
    THEN [instr |-> ThreeAddressCode(instr.op, copy_of(instr.arg1, copies), None_,
                                     instr.result),
          table |-> forget(instr, copies)]
    ELSE [instr |-> ThreeAddressCode(
                        instr.op,
                        IF Truthy(instr.arg1) THEN copy_of(instr.arg1, copies)
                        ELSE instr.arg1,
                        IF Truthy(instr.arg2) THEN copy_of(instr.arg2, copies)
                        ELSE instr.arg2,
                        instr.result),
          table |-> forget(instr, copies)]

RECURSIVE propagate_from(_, _, _, _)
propagate_from(c, lo, hi, st) ==
    \* the loop over instructions lo..hi, st = the optimized list and the
    \* copies table so far
    IF st # st \/ lo > hi THEN st
    ELSE IF lo = hi
    THEN LET r == propagate_instr(c[lo], st.table)
         IN [optimized |-> Append(st.optimized, r.instr), table |-> r.table]
    ELSE LET mid == (lo + hi) \div 2
         IN propagate_from(c, mid + 1, hi, propagate_from(c, lo, mid, st))

\* the copies dict when the loop of copy_propagation reaches instruction i
copies_at(c, i) ==
    propagate_from(c, 1, i - 1, [optimized |-> <<>>, table |-> NoDict]).table

copy_propagation(c) ==
    propagate_from(c, 1, Len(c), [optimized |-> <<>>, table |-> NoDict]).optimized

LiveOps == {"if_false", "if_true", "return", "print", "param", "call"}
KeptOps == {"label", "goto", "if_false", "if_true", "begin_func", "end_func",
            "print", "return", "call", "param"}

\* the names one instruction adds to used_vars in the first pass
used_by(instr) ==
    {o.s : o \in {x \in {instr.arg1, instr.arg2} :
                      Truthy(x) /\ IsStr(x) /\ ~is_constant(x)}}
    \cup (IF instr.op \in LiveOps
          THEN {o.s : o \in {x \in {instr.arg1, instr.result} :
                                 Truthy(x) /\ IsStr(x)}}
          ELSE {})

used_vars(c) == UNION {used_by(c[i]) : i \in 1..Len(c)}

\* the second pass's test on one instruction
keeps(instr, used) ==
    IF instr.op \in KeptOps THEN TRUE
    ELSE IF Truthy(instr.result)
    THEN instr.result.s \in used \/ ~startswith(instr.result.s, "t")
    ELSE TRUE

dead_code_elimination(c) ==
    LET used == used_vars(c)
    IN SelectSeq(c, LAMBDA instr : keeps(instr, used))

\* Optimizer(code).optimize()
Optimize(c) == dead_code_elimination(copy_propagation(constant_folding(c)))

(***************************************************************************)
(* Interpreter (interpreter.py).  pc and every instruction index are       *)
(* 0-based as in the source: the instruction at index i is c[i + 1].  The  *)
(* machine is the record [pc, variables, heap, call_stack, output, err];   *)
(* err is the message of the exception raised, "" while none was raised.   *)
(* heap[a] is the sequence of elements of the list object at address a:    *)
(* lists are shared by every variable and saved frame that holds them.     *)
(* builtin_random and builtin_input, which read the host's random source   *)
(* and stdin, occur in no program of the model.                            *)
(***************************************************************************)
InstrAt(c, i) == c[i + 1]

\* _build_function_table: a later begin_func of the same name overwrites
functions(c) ==
    LET names == {c[i].arg1.s : i \in {j \in 1..Len(c) : c[j].op = "begin_func"}}
    IN [f \in names |->
          CHOOSE i \in 1..Len(c) :
              /\ c[i].op = "begin_func" /\ c[i].arg1.s = f
              /\ \A j \in 1..Len(c) :
                     (c[j].op = "begin_func" /\ c[j].arg1.s = f) => j <= i]

\* find_label: the index of the first label instruction of that name, -1 when
\* the search raises "Label not found"
find_label(c, label) ==
    LET hits == {i \in 0..Len(c) - 1 :
                    InstrAt(c, i).op = "label" /\ InstrAt(c, i).result = label}
    IN IF hits = {} THEN 0 - 1
       ELSE CHOOSE i \in hits : \A j \in hits : i <= j

RECURSIVE function_end_from(_, _, _)
function_end_from(c, i, depth) ==
    IF i >= Len(c) THEN Len(c)
    ELSE IF InstrAt(c, i).op = "begin_func" THEN function_end_from(c, i + 1, depth + 1)
    ELSE IF InstrAt(c, i).op = "end_func"
    THEN IF depth - 1 = 0 THEN i + 1 ELSE function_end_from(c, i + 1, depth - 1)
    ELSE function_end_from(c, i + 1, depth)

\* find_function_end that stops at the first end_func, whatever it closes
find_function_end_flat(c, start) ==
    LET ends == {i \in start..(Len(c) - 1) : InstrAt(c, i).op = "end_func"}
    IN IF ends = {} THEN Len(c)
       ELSE (CHOOSE i \in ends : \A j \in ends : i <= j) + 1

\* find_function_end, called with self.pc = start
find_function_end(c, start) == function_end_from(c, start, 0)

get_value(operand, vs) ==
    IF ~IsStr(operand) THEN Value(operand)
    ELSE IF IsQuoted(operand.s) THEN Value(PyStr(Unquote(operand.s)))
    ELSE IF IsDigits(operand.s) THEN Value(PyInt(ParseInt(operand.s)))
    ELSE IF operand.s = "true" THEN Value(PyBool(TRUE))
    ELSE IF operand.s = "false" THEN Value(PyBool(FALSE))
    ELSE IF operand.s \notin DOMAIN vs THEN Raised
    ELSE Value(vs[operand.s])

Interpreter ==
    [pc |-> 0, variables |-> NoDict, heap |-> <<>>, call_stack |-> <<>>,
     output |-> <<>>, err |-> ""]

raise(vm, msg) == [vm EXCEPT !.err = msg]

\* bool(value), as `if value`, `not value`, `and` and `or` take it
truth(v, h) == IF IsList(v) THEN h[v.n] # <<>> ELSE Truthy(v)

\* repr(value) of a list element and str(value) of a printed value
RECURSIVE repr(_, _), repr_elements(_, _, _)
repr(v, h) ==
    IF IsList(v) THEN "[" \o repr_elements(h[v.n], 1, h) \o "]"
    ELSE IF IsStr(v) THEN "'" \o v.s \o "'"
    ELSE PyToStr(v)
repr_elements(es, i, h) ==
    IF i > Len(es) THEN ""
    ELSE IF i = Len(es) THEN repr(es[i], h)
    ELSE repr(es[i], h) \o ", " \o repr_elements(es, i + 1, h)
str(v, h) == IF IsList(v) THEN repr(v, h) ELSE PyToStr(v)
store(vm, name, v) == [vm EXCEPT !.variables = DictSet(@, name, v)]
UndefinedVariable(operand) == "Undefined variable: " \o operand.s

\* the arithmetic branch of execute_instruction
execute_arithmetic(instr, vm) ==
    LET left == get_value(instr.arg1, vm.variables)
        right == get_value(instr.arg2, vm.variables)
        r == IF instr.op = "/"
             THEN IF IsNum(left.val) /\ IsNum(right.val)
                  THEN PyOp("//", left.val, right.val) ELSE Raised
             ELSE PyOp(instr.op, left.val, right.val)
    IN IF left.raised THEN raise(vm, UndefinedVariable(instr.arg1))
       ELSE IF right.raised THEN raise(vm, UndefinedVariable(instr.arg2))
       ELSE IF instr.op = "/" /\ PyEq(right.val, PyInt(0))
       THEN raise(vm, "Division by zero")
       ELSE IF instr.op = "%" /\ PyEq(right.val, PyInt(0))
       THEN raise(vm, "Modulo by zero")
       ELSE IF r.raised THEN raise(vm, "TypeError")
       ELSE store(vm, instr.result.s, r.val)

\* left == right when a list is involved: lists are equal by their elements
RECURSIVE list_eq(_, _, _)
list_eq(l, r, h) ==
    IF IsList(l) /\ IsList(r)
    THEN /\ Len(h[l.n]) = Len(h[r.n])
         /\ \A i \in 1..Len(h[l.n]) : list_eq(h[l.n][i], h[r.n][i], h)
    ELSE IF IsList(l) \/ IsList(r) THEN FALSE
    ELSE PyEq(l, r)

\* the relational and the logical branch
execute_relational(instr, vm) ==
    LET left == get_value(instr.arg1, vm.variables)
        right == get_value(instr.arg2, vm.variables)
        r == IF instr.op = "and"
             THEN Value(IF truth(left.val, vm.heap) THEN right.val ELSE left.val)
             ELSE IF instr.op = "or"
             THEN Value(IF truth(left.val, vm.heap) THEN left.val ELSE right.val)
             ELSE IF instr.op = "==" /\ (IsList(left.val) \/ IsList(right.val))
             THEN Value(PyBool(list_eq(left.val, right.val, vm.heap)))
             ELSE IF instr.op = "!=" /\ (IsList(left.val) \/ IsList(right.val))
             THEN Value(PyBool(~list_eq(left.val, right.val, vm.heap)))
             ELSE PyOp(instr.op, left.val, right.val)
    IN IF left.raised THEN raise(vm, UndefinedVariable(instr.arg1))
       ELSE IF right.raised THEN raise(vm, UndefinedVariable(instr.arg2))
       ELSE IF r.raised THEN raise(vm, "TypeError")
       ELSE store(vm, instr.result.s, r.val)

\* goto, if_false, if_true
execute_jump(c, instr, vm) ==
    LET condition == get_value(instr.arg1, vm.variables)
        taken == \/ instr.op = "goto"
                 \/ instr.op = "if_false" /\ ~truth(condition.val, vm.heap)
                 \/ instr.op = "if_true" /\ truth(condition.val, vm.heap)
        target == find_label(c, instr.result)
    IN IF instr.op # "goto" /\ condition.raised
       THEN raise(vm, UndefinedVariable(instr.arg1))
       ELSE IF ~taken THEN vm
       ELSE IF target < 0 THEN raise(vm, "Label not found: " \o instr.result.s)
       ELSE [vm EXCEPT !.pc = target]

execute_param_decl(instr, vm) ==
    IF vm.call_stack = <<>> THEN vm
    ELSE LET d == Len(vm.call_stack)
             frame == vm.call_stack[d]
         IN IF frame.param_index < Len(frame.params)
            THEN [store(vm, instr.arg1.s, frame.params[frame.param_index + 1])
                    EXCEPT !.call_stack[d].param_index = @ + 1]
            ELSE vm

\* self.code[self.pc - num_params + i]; a negative index counts from the end
param_instr_index(c, pc0, num_params, i) ==
    LET j == pc0 - num_params + i IN IF j < 0 THEN j + Len(c) ELSE j

\* the params loop of the call branch, from i on: [raised, params]
RECURSIVE collect_params(_, _, _, _, _)
collect_params(c, vm, num_params, i, params) ==
    IF i >= num_params THEN [raised |-> "", params |-> params]
    ELSE LET j == param_instr_index(c, vm.pc, num_params, i)
         IN IF j < 0 THEN [raised |-> "IndexError", params |-> params]
            ELSE LET param_instr == InstrAt(c, j)
                     v == get_value(param_instr.arg1, vm.variables)
                 IN IF param_instr.op # "param"
                    THEN collect_params(c, vm, num_params, i + 1, params)
                    ELSE IF v.raised
                    THEN [raised |-> UndefinedVariable(param_instr.arg1),
                          params |-> params]
                    ELSE collect_params(c, vm, num_params, i + 1,
                                        Append(params, v.val))

execute_call(c, instr, vm) ==
    LET func_name == instr.arg1
        num_params == instr.arg2.n
        got == collect_params(c, vm, num_params, 0, <<>>)
        frame == [return_address |-> vm.pc + 1, saved_vars |-> vm.variables,
                  params |-> got.params, param_index |-> 0]
        pushed == [vm EXCEPT !.call_stack = Append(@, frame)]
    IN IF got.raised # "" THEN raise(vm, got.raised)
       ELSE IF ~InDict(func_name, functions(c))
       THEN raise(pushed, "Undefined function: " \o PyToStr(func_name))
       ELSE [pushed EXCEPT !.pc = functions(c)[func_name.s]]

execute_return(c, instr, vm) ==
    IF vm.call_stack = <<>> THEN [vm EXCEPT !.pc = Len(c)]
    ELSE LET return_value == get_value(instr.arg1, vm.variables)
             d == Len(vm.call_stack)
             frame == vm.call_stack[d]
             call_instr == InstrAt(c, frame.return_address - 1)
             restored == [vm EXCEPT !.call_stack = SubSeq(@, 1, d - 1),
                                    !.variables = frame.saved_vars]
             stored == IF ~IsNone(return_value.val) /\ Truthy(call_instr.result)
                       THEN store(restored, call_instr.result.s, return_value.val)
                       ELSE restored
         IN IF return_value.raised THEN raise(vm, UndefinedVariable(instr.arg1))
            ELSE [stored EXCEPT !.pc = frame.return_address]

\* print that keeps only the entry it writes
execute_print_replacing(instr, vm) ==
    LET value == get_value(instr.arg1, vm.variables)
    IN IF value.raised THEN raise(vm, UndefinedVariable(instr.arg1))
       ELSE [vm EXCEPT !.output = <<str(value.val, vm.heap)>>]

execute_print(instr, vm) ==
    LET value == get_value(instr.arg1, vm.variables)
    IN IF value.raised THEN raise(vm, UndefinedVariable(instr.arg1))
       ELSE [vm EXCEPT !.output = Append(@, str(value.val, vm.heap))]

\* array_init and array_append
execute_array_init(instr, vm) ==
    [store(vm, instr.result.s, PyList(Len(vm.heap) + 1))
        EXCEPT !.heap = Append(@, <<>>)]

execute_array_append(instr, vm) ==
    LET present == InDict(instr.result, vm.variables)
        \* self.variables.get(instr.result, [])
        array == IF present THEN vm.variables[instr.result.s]
                 ELSE PyList(Len(vm.heap) + 1)
        fresh == IF present THEN vm ELSE [vm EXCEPT !.heap = Append(@, <<>>)]
        value == get_value(instr.arg1, vm.variables)
    IN IF value.raised THEN raise(vm, UndefinedVariable(instr.arg1))
       ELSE IF ~IsList(array) THEN raise(vm, "AttributeError")
       ELSE [store(fresh, instr.result.s, array)
                EXCEPT !.heap[array.n] = Append(@, value.val)]

\* array_get: result = array[index]
execute_array_get(instr, vm) ==
    LET array == get_value(instr.arg1, vm.variables)
        index == get_value(instr.arg2, vm.variables)
    IN IF array.raised THEN raise(vm, UndefinedVariable(instr.arg1))
       ELSE IF index.raised THEN raise(vm, UndefinedVariable(instr.arg2))
       ELSE IF ~IsList(array.val) THEN raise(vm, "Cannot index non-array type")
       ELSE IF ~IsNum(index.val) THEN raise(vm, "Array index must be integer")
       ELSE IF index.val.n < 0 \/ index.val.n >= Len(vm.heap[array.val.n])
       THEN raise(vm, "Array index out of bounds: " \o PyToStr(index.val))
       ELSE store(vm, instr.result.s, vm.heap[array.val.n][index.val.n + 1])

\* array_set that grows the list when the index is past its end
execute_array_set_growing(instr, vm) ==
    LET array == IF InDict(instr.result, vm.variables)
                 THEN vm.variables[instr.result.s] ELSE None_
        index == get_value(instr.arg1, vm.variables)
        value == get_value(instr.arg2, vm.variables)
    IN IF ~IsList(array) THEN raise(vm, "Cannot index non-array type")
       ELSE IF index.raised THEN raise(vm, UndefinedVariable(instr.arg1))
       ELSE IF value.raised THEN raise(vm, UndefinedVariable(instr.arg2))
       ELSE IF ~IsNum(index.val) THEN raise(vm, "Array index must be integer")
       ELSE IF index.val.n < 0
       THEN raise(vm, "Array index out of bounds: " \o PyToStr(index.val))
       ELSE IF index.val.n >= Len(vm.heap[array.n])
       THEN [vm EXCEPT !.heap[array.n] = Append(@, value.val)]
       ELSE [vm EXCEPT !.heap[array.n][index.val.n + 1] = value.val]

\* array_set: array[index] = value, on the list object itself
execute_array_set(instr, vm) ==
    LET array == IF InDict(instr.result, vm.variables)
                 THEN vm.variables[instr.result.s] ELSE None_
        index == get_value(instr.arg1, vm.variables)
        value == get_value(instr.arg2, vm.variables)
    IN IF ~IsList(array) THEN raise(vm, "Cannot index non-array type")
       ELSE IF index.raised THEN raise(vm, UndefinedVariable(instr.arg1))
       ELSE IF value.raised THEN raise(vm, UndefinedVariable(instr.arg2))
       ELSE IF ~IsNum(index.val) THEN raise(vm, "Array index must be integer")
       ELSE IF index.val.n < 0 \/ index.val.n >= Len(vm.heap[array.n])
       THEN raise(vm, "Array index out of bounds: " \o PyToStr(index.val))
       ELSE [vm EXCEPT !.heap[array.n][index.val.n + 1] = value.val]

\* int(value): [raised, val]
PyToInt(v) ==
    IF IsNum(v) THEN Value(v.n)
    ELSE IF IsStr(v) /\ IsDigits(v.s) THEN Value(ParseInt(v.s))
    ELSE Raised

\* string[start:end]
PySlice(string, start, end) ==
    LET index(i) == LET j == IF i < 0 THEN i + Len(string) ELSE i
                    IN IF j < 0 THEN 0 ELSE IF j > Len(string) THEN Len(string) ELSE j
    IN SubSeq(string, index(start) + 1, index(end))

execute_builtin_len(instr, vm) ==
    LET arg == get_value(instr.arg1, vm.variables)
    IN IF arg.raised THEN raise(vm, UndefinedVariable(instr.arg1))
       ELSE IF IsList(arg.val)
       THEN store(vm, instr.result.s, PyInt(Len(vm.heap[arg.val.n])))
       ELSE IF IsStr(arg.val) THEN store(vm, instr.result.s, PyInt(Len(arg.val.s)))
       ELSE raise(vm, "len() requires array or string")

\* start, end = instr.arg2
execute_builtin_substr(instr, vm) ==
    LET string == get_value(instr.arg1, vm.variables)
        start == PyStr(SubSeq(instr.arg2.s, 1, instr.arg2.n))
        end == PyStr(SubSeq(instr.arg2.s, instr.arg2.n + 2, Len(instr.arg2.s)))
        start_val == get_value(start, vm.variables)
        end_val == get_value(end, vm.variables)
    IN IF string.raised THEN raise(vm, UndefinedVariable(instr.arg1))
       ELSE IF start_val.raised THEN raise(vm, UndefinedVariable(start))
       ELSE IF end_val.raised THEN raise(vm, UndefinedVariable(end))
       ELSE IF ~IsStr(string.val) THEN raise(vm, "substr() requires string")
       ELSE IF PyToInt(start_val.val).raised \/ PyToInt(end_val.val).raised
       THEN raise(vm, "TypeError")
       ELSE store(vm, instr.result.s,
                  PyStr(PySlice(string.val.s, PyToInt(start_val.val).val,
                                PyToInt(end_val.val).val)))

execute_builtin_concat(instr, vm) ==
    LET str1 == get_value(instr.arg1, vm.variables)
        str2 == get_value(instr.arg2, vm.variables)
    IN IF str1.raised THEN raise(vm, UndefinedVariable(instr.arg1))
       ELSE IF str2.raised THEN raise(vm, UndefinedVariable(instr.arg2))
       ELSE IF ~IsStr(str1.val) \/ ~IsStr(str2.val)
       THEN raise(vm, "concat() requires string arguments")
       ELSE store(vm, instr.result.s, PyStr(str1.val.s \o str2.val.s))

execute_instruction(c, instr, vm) ==
    CASE instr.op = "assign" ->
           LET value == get_value(instr.arg1, vm.variables)
           IN IF value.raised THEN raise(vm, UndefinedVariable(instr.arg1))
              ELSE store(vm, instr.result.s, value.val)
      [] instr.op \in {"+", "-", "*", "/", "%", "**"} -> execute_arithmetic(instr, vm)
      [] instr.op \in {"<", ">", "<=", ">=", "==", "!=", "and", "or"} ->
           execute_relational(instr, vm)
      [] instr.op = "not" ->
           LET operand == get_value(instr.arg1, vm.variables)
           IN IF operand.raised THEN raise(vm, UndefinedVariable(instr.arg1))
              ELSE store(vm, instr.result.s, PyBool(~truth(operand.val, vm.heap)))
      [] instr.op \in {"goto", "if_false", "if_true"} -> execute_jump(c, instr, vm)
      [] instr.op = "print" -> execute_print(instr, vm)
      [] instr.op = "param_decl" -> execute_param_decl(instr, vm)
      [] instr.op = "call" -> execute_call(c, instr, vm)
      [] instr.op = "return" -> execute_return(c, instr, vm)
      [] instr.op = "begin_func" -> [vm EXCEPT !.pc = find_function_end(c, vm.pc)]
      [] instr.op = "array_init" -> execute_array_init(instr, vm)
      [] instr.op = "array_append" -> execute_array_append(instr, vm)
      [] instr.op = "array_get" -> execute_array_get(instr, vm)
      [] instr.op = "array_set" -> execute_array_set(instr, vm)
      [] instr.op = "builtin_len" -> execute_builtin_len(instr, vm)
      [] instr.op = "builtin_substr" -> execute_builtin_substr(instr, vm)
      [] instr.op = "builtin_concat" -> execute_builtin_concat(instr, vm)
      [] OTHER -> vm

\* one iteration of execute's while loop
execute_step(c, vm) ==
    LET after == execute_instruction(c, InstrAt(c, vm.pc), vm)
    IN IF after.err # "" THEN after
       ELSE IF after.pc = vm.pc THEN [after EXCEPT !.pc = @ + 1]
       ELSE after

\* the loop of execute(), stopped after `fuel` iterations; the iterations are
\* split in halves so that the evaluation nests only logarithmically deep
RECURSIVE execute(_, _, _)
execute(c, vm, fuel) ==
    IF vm.err # "" \/ vm.pc >= Len(c) \/ fuel = 0 THEN vm
    ELSE IF fuel = 1 THEN execute_step(c, vm)
    ELSE execute(c, execute(c, vm, fuel \div 2), fuel - (fuel \div 2))

(***************************************************************************)
(* Source programs.  The lexer and the parser are represented by their     *)
(* outcome: a source has legal or illegal characters, grammatical or       *)
(* ungrammatical tokens, and, when both are fine, the AST the parser       *)
(* builds.  The programs are those parse_statement can build from text.    *)
(***************************************************************************)
Plus(l, r) == BinaryOp(l, "+", r)
Less(l, r) == BinaryOp(l, "<", r)
IntDecl(x, e) == VarDeclaration("int", x, e)
IntParam(x) == <<"int", x>>
IntFunction(f, ps, body) == FunctionDef("int", f, ps, body)

\* int x = 5;
GlobalX == IntDecl("x", IntLit(5))

ParamLists ==
    {<<>>, <<IntParam("a")>>, <<IntParam("x")>>, <<IntParam("a"), IntParam("b")>>}

BodyPool ==
    { Plus(Identifier("a"), BinaryOp(Identifier("a"), "*", IntLit(2))),
      FunctionCall("f", <<>>),
      IfStatement(BinaryOp(Identifier("a"), "<=", IntLit(0)),
                  <<ReturnStatement(IntLit(0))>>, <<>>),
      IntDecl("f", Identifier("a")),
      IntFunction("g", <<>>, <<ReturnStatement(IntLit(1))>>),
      PrintStatement(<<Identifier("a")>>) }

RetPool ==
    { Identifier("a"), IntLit(1), Plus(Identifier("x"), IntLit(1)),
      FunctionCall("f", <<BinaryOp(Identifier("a"), "-", IntLit(1))>>),
      Identifier("f") }

ArgLists == {<<>>, <<IntLit(2)>>, <<IntLit(1), Plus(IntLit(2), IntLit(3))>>}

\* the statement lists of at most n statements drawn from pool
RECURSIVE Blocks(_, _)
Blocks(pool, n) ==
    IF n = 0 THEN {<<>>}
    ELSE LET shorter == Blocks(pool, n - 1)
         IN shorter \cup {<<s>> \o b : s \in pool, b \in shorter}

\* [int x = 5;] function int f(params) { body return r; } print(f(args));
CallPrograms ==
    { Program(pre \o <<IntFunction("f", ps, body \o <<ReturnStatement(r)>>),
                       PrintStatement(<<FunctionCall("f", args)>>)>>) :
        pre \in {<<>>, <<GlobalX>>}, ps \in ParamLists,
        body \in Blocks(BodyPool, MaxBody), r \in RetPool, args \in ArgLists }

\* i = i + 1;
Increment(x) == Assignment(x, Plus(Identifier(x), IntLit(1)))

\* the control statements nested at most n deep around i = i + 1
RECURSIVE Nested(_)
Nested(n) ==
    IF n = 0 THEN {Increment("i")}
    ELSE LET inner == Nested(n - 1)
         IN inner
            \cup {IfStatement(Less(Identifier("i"), IntLit(3)), <<s>>, <<>>) :
                    s \in inner}
            \cup {IfStatement(Less(Identifier("i"), IntLit(1)), <<s>>,
                              <<Increment("i")>>) : s \in inner}
            \cup {WhileStatement(Less(Identifier("i"), IntLit(2)), <<s>>) :
                    s \in inner}
            \cup {ForStatement(IntDecl("j", IntLit(0)),
                               Less(Identifier("j"), IntLit(2)),
                               Increment("j"), <<s>>) : s \in inner}

\* int i = 0; <nested statement> print(i);
NestPrograms ==
    { Program(<<IntDecl("i", IntLit(0)), s, PrintStatement(<<Identifier("i")>>)>>) :
        s \in Nested(MaxNest) }

\* int x = 5; function int f() { return x; }
\* function int g() { int x = 7; return f(); } print(g());
ShadowingProgram ==
    Program(<<GlobalX,
              IntFunction("f", <<>>, <<ReturnStatement(Identifier("x"))>>),
              IntFunction("g", <<>>, <<IntDecl("x", IntLit(7)),
                                       ReturnStatement(FunctionCall("f", <<>>))>>),
              PrintStatement(<<FunctionCall("g", <<>>)>>)>>)

\* function int <f>() { function int g() { return <i>; } return g(); }
Enclosing(f, i) ==
    IntFunction(f, <<>>, <<IntFunction("g", <<>>, <<ReturnStatement(IntLit(i))>>),
                           ReturnStatement(FunctionCall("g", <<>>))>>)

\* two functions that each define their own g; print(f()); print(h());
LocalFunctionsProgram ==
    Program(<<Enclosing("f", 1), Enclosing("h", 2),
              PrintStatement(<<FunctionCall("f", <<>>)>>),
              PrintStatement(<<FunctionCall("h", <<>>)>>)>>)

ScopePrograms == {ShadowingProgram, LocalFunctionsProgram}

\* print(6 op 0);   int z = 0; print(7 op z);
\* int x = 0; function int f(int x) { return 1 op x; } print(f(2));
DivPrograms ==
    UNION {{Program(<<PrintStatement(<<BinaryOp(IntLit(6), op, IntLit(0))>>)>>),
            Program(<<IntDecl("z", IntLit(0)),
                      PrintStatement(<<BinaryOp(IntLit(7), op, Identifier("z"))>>)>>),
            Program(<<IntDecl("x", IntLit(0)),
                      IntFunction("f", <<IntParam("x")>>,
                          <<ReturnStatement(BinaryOp(IntLit(1), op, Identifier("x")))>>),
                      PrintStatement(<<FunctionCall("f", <<IntLit(2)>>)>>)>>)} :
           op \in {"/", "%"}}

\* int a = p - q; int b = u - v; print(a op b);  for every operator that
\* constant folding handles and ints a, b in -MaxConst..MaxConst (an
\* exponent is not negative: the power would be a float)
FoldPrograms ==
    {Program(<<IntDecl("a", BinaryOp(IntLit(p), "-", IntLit(q))),
               IntDecl("b", BinaryOp(IntLit(u), "-", IntLit(v))),
               PrintStatement(<<BinaryOp(Identifier("a"), op, Identifier("b"))>>)>>) :
        p \in 0..MaxConst, q \in {0, MaxConst},
        op \in FoldedOps,
        u \in 0..MaxConst, v \in {0, MaxConst}}
    \ {Program(<<IntDecl("a", BinaryOp(IntLit(p), "-", IntLit(q))),
                 IntDecl("b", BinaryOp(IntLit(u), "-", IntLit(MaxConst))),
                 PrintStatement(<<BinaryOp(Identifier("a"), "**", Identifier("b"))>>)>>) :
        p \in 0..MaxConst, q \in {0, MaxConst}, u \in 0..(MaxConst - 1)}

\* function int f(int y) { int x = y; <statement>; return x; } print(f(1));
\* with y = 2;  x = 2;  int z = 2;  as the statement
CopyPrograms ==
    {Program(<<IntFunction("f", <<IntParam("y")>>,
                   <<IntDecl("x", Identifier("y")), st,
                     ReturnStatement(Identifier("x"))>>),
               PrintStatement(<<FunctionCall("f", <<IntLit(1)>>)>>)>>) :
        st \in {Assignment("y", IntLit(2)), Assignment("x", IntLit(2)),
                 IntDecl("z", IntLit(2))}}

\* string s = "hello"; int a = 1; print(<built-in call>);
BuiltInPrograms ==
    {Program(<<VarDeclaration("string", "s", Literal(PyStr("hello"), "string")),
               IntDecl("a", IntLit(1)),
               PrintStatement(<<e>>)>>) :
        e \in {BuiltInCall("substr", <<Identifier("s"), x, y>>) :
                   x \in {IntLit(1), Identifier("a"), Plus(Identifier("a"), IntLit(1))},
                   y \in {IntLit(4), Plus(Identifier("a"), IntLit(2))}}
               \cup {BuiltInCall("substr", <<Identifier("a"), IntLit(0), IntLit(1)>>),
                      BuiltInCall("substr", <<Identifier("s"), IntLit(1)>>),
                      BuiltInCall("len", <<Identifier("s")>>),
                      BuiltInCall("len", <<Identifier("a")>>),
                      BuiltInCall("concat",
                          <<Identifier("s"), Literal(PyStr("!"), "string")>>),
                      BuiltInCall("len",
                          <<BuiltInCall("substr",
                               <<Identifier("s"), Identifier("a"),
                                 BinaryOp(Identifier("a"), "*", IntLit(3))>>)>>)}}

\* int a = 5; bool b = a < 7; print(<expression>);  with -5, -a, not b,
\* not (a < 2), a - 2 and -a - 2 as the expression
UnaryPrograms ==
    {Program(<<IntDecl("a", IntLit(5)),
               VarDeclaration("bool", "b", Less(Identifier("a"), IntLit(7))),
               PrintStatement(<<e>>)>>) :
        e \in {UnaryOp("-", IntLit(5)), UnaryOp("-", Identifier("a")),
               UnaryOp("not", Identifier("b")),
               UnaryOp("not", Less(Identifier("a"), IntLit(2))),
               BinaryOp(Identifier("a"), "-", IntLit(2)),
               BinaryOp(UnaryOp("-", Identifier("a")), "-", IntLit(2))}}

\* the statements of a function body that do or do not return: return 1;
\* return;  return true;  a return inside an if, a while and a for;  print(a);
ReturnPool ==
    { ReturnStatement(IntLit(1)), ReturnStatement(NoNode),
      ReturnStatement(BoolLit(TRUE)),
      IfStatement(BinaryOp(Identifier("a"), "<=", IntLit(0)),
                  <<ReturnStatement(IntLit(1))>>, <<>>),
      WhileStatement(Less(Identifier("a"), IntLit(2)),
                     <<ReturnStatement(IntLit(2))>>),
      ForStatement(IntDecl("j", IntLit(0)), Less(Identifier("j"), IntLit(2)),
                   Increment("j"), <<ReturnStatement(IntLit(3))>>),
      PrintStatement(<<Identifier("a")>>) }

\* function <type> f(int a) { <body> } print(f(1)); print(9);  for the types
\* int and bool (the parser knows no void function), and the programs with a
\* return at the top level, before or after a function definition, or in a
\* function that encloses another
ReturnPrograms ==
    { Program(<<FunctionDef(t, "f", <<IntParam("a")>>, body),
                PrintStatement(<<FunctionCall("f", <<IntLit(1)>>)>>),
                PrintStatement(<<IntLit(9)>>)>>) :
        t \in {"int", "bool"}, body \in Blocks(ReturnPool, MaxBody + 1) }
    \cup
    { Program(pre \o <<IntFunction("f", <<>>, <<ReturnStatement(IntLit(1))>>)>>
              \o post) :
        pre \in {<<>>, <<ReturnStatement(NoNode)>>},
        post \in {<<ReturnStatement(IntLit(1))>>, <<ReturnStatement(NoNode)>>,
                  <<IfStatement(BoolLit(TRUE), <<ReturnStatement(IntLit(1))>>, <<>>)>>,
                  <<PrintStatement(<<FunctionCall("f", <<>>)>>)>>} }
    \cup
    { Program(<<FunctionDef(t, "f", <<>>,
                   <<FunctionDef(u, "g", <<>>, <<ReturnStatement(v)>>),
                     ReturnStatement(w)>>),
                PrintStatement(<<IntLit(9)>>)>>) :
        t \in {"int", "bool"}, u \in {"int", "bool"},
        v \in {IntLit(1), BoolLit(TRUE)}, w \in {IntLit(1), BoolLit(TRUE)} }

\* int x = 1; <block> print(x);  where the block is an if, a while or a for
\* whose body declares or assigns x or declares another variable
BlockPrograms ==
    { Program(<<IntDecl("x", IntLit(1)), block,
                PrintStatement(<<Identifier("x")>>)>>) :
        block \in UNION {
            { IfStatement(Less(Identifier("x"), IntLit(2)), <<st>>, <<>>),
              WhileStatement(Less(Identifier("x"), IntLit(2)),
                             <<st, Increment("x")>>),
              ForStatement(IntDecl("j", IntLit(0)), Less(Identifier("j"), IntLit(2)),
                           Increment("j"), <<st>>) } :
            st \in {IntDecl("x", IntLit(2)), Assignment("x", IntLit(2)),
                     IntDecl("y", IntLit(2))} } }

\* programs that declare a variable without an initializer:
\* int x; print(x);   int x; x = 3; print(x);
\* int x = 1; int y; if (x < b) { y = 2; } print(y);  for b = 1 and b = 2
DeclPrograms ==
    { Program(<<IntDecl("x", NoNode), PrintStatement(<<Identifier("x")>>)>>),
      Program(<<IntDecl("x", NoNode), Assignment("x", IntLit(3)),
                PrintStatement(<<Identifier("x")>>)>>) }
    \cup
    { Program(<<IntDecl("x", IntLit(1)), IntDecl("y", NoNode),
                IfStatement(Less(Identifier("x"), IntLit(b)),
                            <<Assignment("y", IntLit(2))>>, <<>>),
                PrintStatement(<<Identifier("y")>>)>>) : b \in {1, 2} }

\* int[] a = [1, 2]; int x = 3; function int f(int v) { <statement> return 0; }
\* print(f(9)); print(a[0]); print(x);   where the statement writes an element
\* of a, assigns a or x, or builds an array of its own
ArrayPrograms ==
    { Program(<<VarDeclaration("int[]", "a", ArrayLiteral(<<IntLit(1), IntLit(2)>>)),
                IntDecl("x", IntLit(3)),
                IntFunction("f", <<IntParam("v")>>, <<st, ReturnStatement(IntLit(0))>>),
                PrintStatement(<<FunctionCall("f", <<IntLit(9)>>)>>),
                PrintStatement(<<ArrayAccess(Identifier("a"), IntLit(0))>>),
                PrintStatement(<<Identifier("x")>>)>>) :
        st \in { ArrayAssignment("a", IntLit(0), Identifier("v")),
                 Assignment("a", ArrayLiteral(<<Identifier("v")>>)),
                 Assignment("x", Identifier("v")),
                 VarDeclaration("int[]", "b", ArrayLiteral(<<Identifier("v")>>)),
                 PrintStatement(<<ArrayAccess(Identifier("a"), IntLit(1))>>) } }

\* <A> x; <B> y; bool r = x == y;   and the same with !=, for every pair of
\* declared types A and B
EqTypes == {"int", "float", "bool", "string"}
EqPrograms ==
    { Program(<<VarDeclaration(ta, "x", NoNode), VarDeclaration(tb, "y", NoNode),
                VarDeclaration("bool", "r",
                               BinaryOp(Identifier("x"), o, Identifier("y")))>>) :
        ta \in EqTypes, tb \in EqTypes, o \in {"==", "!="} }

\* programs whose run ends in a run-time error after print(8):
\* int x = 1; print(8); x op 0; print(9);              for op in / and %
\* int x = 1; print(8); int y = x op 0; print(9);
\* int[] a = [1, 2]; int x = 1; print(8); <statement> print(9);  where the
\* statement is print(a[2]);  int y = a[2];  x + a[2];  a[2] = x;
ErrPrograms ==
    UNION {{Program(<<IntDecl("x", IntLit(1)), PrintStatement(<<IntLit(8)>>),
                      BinaryOp(Identifier("x"), op, IntLit(0)),
                      PrintStatement(<<IntLit(9)>>)>>),
            Program(<<IntDecl("x", IntLit(1)), PrintStatement(<<IntLit(8)>>),
                      IntDecl("y", BinaryOp(Identifier("x"), op, IntLit(0))),
                      PrintStatement(<<IntLit(9)>>)>>)} : op \in {"/", "%"}}
    \cup
    { Program(<<VarDeclaration("int[]", "a", ArrayLiteral(<<IntLit(1), IntLit(2)>>)),
                IntDecl("x", IntLit(1)), PrintStatement(<<IntLit(8)>>),
                st, PrintStatement(<<IntLit(9)>>)>>) :
        st \in { PrintStatement(<<ArrayAccess(Identifier("a"), IntLit(2))>>),
                 IntDecl("y", ArrayAccess(Identifier("a"), IntLit(2))),
                 Plus(Identifier("x"), ArrayAccess(Identifier("a"), IntLit(2))),
                 ArrayAssignment("a", IntLit(2), Identifier("x")) } }

Programs ==
    CallPrograms \cup NestPrograms \cup ScopePrograms \cup DivPrograms
        \cup CopyPrograms \cup BuiltInPrograms \cup UnaryPrograms
        \cup ReturnPrograms \cup BlockPrograms \cup DeclPrograms
        \cup ArrayPrograms \cup EqPrograms \cup ErrPrograms

Sources ==
    {[chars |-> "legal", tokens |-> "grammatical", program |-> p] : p \in Programs}
    \cup {[chars |-> "illegal", tokens |-> "none", program |-> NoNode],
          [chars |-> "legal", tokens |-> "ungrammatical", program |-> NoNode]}

(***************************************************************************)
(* NumCalcCompiler.compile_and_run (compiler.py).                          *)
(***************************************************************************)
NoException == [type |-> "", message |-> ""]
Exception(type, message) == [type |-> type, message |-> message]
NoLexer == [source |-> ""]
NoStep ==
    [op |-> "", pc |-> 0, variables |-> NoDict, heap |-> <<>>, call_stack |-> <<>>]

Init ==
    /\ source \in Sources
    /\ lexer = NoLexer
    /\ analyzer = SemanticAnalyzer
    /\ optimize \in BOOLEAN
    /\ phase = "lexer"
    /\ ast = NoNode
    /\ ir = <<>>
    /\ code = <<>>
    /\ pc = 0
    /\ variables = NoDict
    /\ heap = <<>>
    /\ call_stack = <<>>
    /\ output = <<>>
    /\ steps = 0
    /\ last = NoStep
    /\ called = <<>>
    /\ raised = NoException
    /\ result = None_

\* except clauses of which the one for SemanticError lets the pipeline go on
except_phase_resuming(stage) == IF stage = "analyzer" THEN "ir_gen" ELSE "returned"

\* the except clauses of compile_and_run: where control goes after an
\* exception raised in a stage, and what is returned
except_phase(stage) == "returned"
except_result(stage) == PyBool(FALSE)

\* an exception raised in `stage` reaches its except clause
Raise(stage, type, message) ==
    /\ raised' = Exception(type, message)
    /\ phase' = except_phase(stage)
    /\ result' = IF except_phase(stage) = "returned" THEN except_result(stage)
                 ELSE result

\* lexer = Lexer(source_code); tokens = lexer.tokenize()
LexicalAnalysis ==
    /\ phase = "lexer"
    /\ IF source.chars = "illegal"
       THEN Raise("lexer", "SyntaxError", "Unexpected character")
       ELSE phase' = "parser" /\ UNCHANGED <<raised, result>>
    /\ UNCHANGED <<source, called, lexer, analyzer, optimize, ast, ir, code, pc, variables, heap, call_stack,
                   output, steps, last>>

\* parser = Parser(tokens); ast = parser.parse()
SyntaxAnalysis ==
    /\ phase = "parser"
    /\ IF source.tokens = "ungrammatical"
       THEN Raise("parser", "SyntaxError", "Unexpected token") /\ UNCHANGED ast
       ELSE phase' = "analyzer" /\ ast' = source.program
            /\ UNCHANGED <<raised, result>>
    /\ UNCHANGED <<source, called, lexer, analyzer, optimize, ir, code, pc, variables, heap, call_stack,
                   output, steps, last>>

\* analyzer = SemanticAnalyzer(); analyzer.analyze(ast)
SemanticAnalysis ==
    /\ phase = "analyzer"
    /\ IF SemanticErrorOf(ast) # ""
       THEN Raise("analyzer", "SemanticError", SemanticErrorOf(ast))
       ELSE phase' = "ir_gen" /\ UNCHANGED <<raised, result>>
    /\ analyzer' = analyze(ast, SemanticAnalyzer).a
    /\ UNCHANGED <<source, called, lexer, optimize, ast, ir, code, pc, variables, heap, call_stack,
                   output, steps, last>>

\* ir_gen = IRGenerator(); ir_gen.generate(ast); code = ir_gen.code
CodeGeneration ==
    /\ phase = "ir_gen"
    /\ ir' = GenerateIR(ast)
    /\ code' = GenerateIR(ast)
    /\ phase' = "optimizer"
    /\ UNCHANGED <<source, called, lexer, analyzer, optimize, ast, pc, variables, heap, call_stack, output,
                   steps, last, raised, result>>

\* if self.optimize: code = Optimizer(code).optimize(); then Interpreter(code)
\* is built and execute() sets pc = 0
Optimization ==
    /\ phase = "optimizer"
    /\ code' = IF optimize THEN Optimize(code) ELSE code
    /\ phase' = "interpreter"
    /\ pc' = Interpreter.pc
    /\ variables' = Interpreter.variables
    /\ heap' = Interpreter.heap
    /\ call_stack' = Interpreter.call_stack
    /\ output' = Interpreter.output
    /\ UNCHANGED <<source, called, lexer, analyzer, optimize, ast, ir, steps, last, raised, result>>

Machine ==
    [pc |-> pc, variables |-> variables, heap |-> heap, call_stack |-> call_stack,
     output |-> output, err |-> ""]

\* one iteration of the loop of Interpreter.execute; an exception leaves the
\* loop and reaches `except Exception`
Execution ==
    /\ phase = "interpreter"
    /\ pc < Len(code)
    /\ steps < MaxSteps
    /\ LET after == execute_step(code, Machine)
       IN /\ pc' = after.pc
          /\ variables' = after.variables
          /\ heap' = after.heap
          /\ call_stack' = after.call_stack
          /\ output' = after.output
          /\ IF after.err # ""
             THEN Raise("interpreter", "RuntimeError", after.err)
             ELSE UNCHANGED <<phase, raised, result>>
    /\ steps' = steps + 1
    /\ last' = [op |-> InstrAt(code, pc).op, pc |-> pc, variables |-> variables,
                heap |-> heap, call_stack |-> call_stack]
    /\ called' = LET depth == Len(execute_step(code, Machine).call_stack)
                 IN IF depth > Len(call_stack) THEN Append(called, heap)
                    ELSE SubSeq(called, 1, depth)
    /\ UNCHANGED <<source, lexer, analyzer, optimize, ast, ir, code>>

\* the loop of execute ends; compile_and_run returns True
Completion ==
    /\ phase = "interpreter"
    /\ pc >= Len(code)
    /\ phase' = "returned"
    /\ result' = PyBool(TRUE)
    /\ UNCHANGED <<source, called, lexer, analyzer, optimize, ast, ir, code, pc, variables, heap, call_stack,
                   output, steps, last, raised>>

Next ==
    \/ LexicalAnalysis
    \/ SyntaxAnalysis
    \/ SemanticAnalysis
    \/ CodeGeneration
    \/ Optimization
    \/ Execution
    \/ Completion

Spec == Init /\ [][Next]_vars

\* compile_and_run on the arithmetic programs
FoldInit ==
    /\ source \in {[chars |-> "legal", tokens |-> "grammatical", program |-> p] :
                      p \in FoldPrograms}
    /\ lexer = NoLexer
    /\ analyzer = SemanticAnalyzer
    /\ optimize \in BOOLEAN
    /\ phase = "lexer"
    /\ ast = NoNode
    /\ ir = <<>>
    /\ code = <<>>
    /\ pc = 0
    /\ variables = NoDict
    /\ heap = <<>>
    /\ call_stack = <<>>
    /\ output = <<>>
    /\ steps = 0
    /\ last = NoStep
    /\ called = <<>>
    /\ raised = NoException
    /\ result = None_

FoldSpec == FoldInit /\ [][Next]_vars

(***************************************************************************)
(* Lexer (lexer.py).  The source is a string; peek() returning None is     *)
(* NoChar.  An exception raised inside tokenize is kept in the field err.  *)
(* A float literal's value is kept by its numeral.                         *)
(***************************************************************************)
NoChar == ""
Letters ==
    {"a", "b", "c", "d", "e", "f", "g", "h", "i", "j", "k", "l", "m", "n", "o",
     "p", "q", "r", "s", "t", "u", "v", "w", "x", "y", "z", "A", "B", "C", "D",
     "E", "F", "G", "H", "I", "J", "K", "L", "M", "N", "O", "P", "Q", "R", "S",
     "T", "U", "V", "W", "X", "Y", "Z"}
KEYWORDS ==
    {"int", "float", "bool", "string", "if", "else", "while", "for", "return",
     "print", "input", "function", "true", "false", "len", "random", "substr",
     "concat", "and", "or", "not"}
Token(type, value, line, column) ==
    [type |-> type, value |-> value, line |-> line, column |-> column]
Lexer(source_code) ==
    [source |-> source_code, pos |-> 0, line |-> 1, column |-> 1,
     tokens |-> <<>>, err |-> NoException]

\* self.error(message)
Lexer_error(lx, message) ==
    [lx EXCEPT !.err = Exception("SyntaxError",
        "Lexical error at line " \o PyToStr(PyInt(lx.line)) \o ", column "
            \o PyToStr(PyInt(lx.column)) \o ": " \o message)]

peek(lx, offset) ==
    IF lx.pos + offset < Len(lx.source)
    THEN CharAt(lx.source, lx.pos + offset + 1) ELSE NoChar

advance(lx) ==
    IF lx.pos >= Len(lx.source) THEN lx
    ELSE LET char == CharAt(lx.source, lx.pos + 1)
         IN [lx EXCEPT !.pos = @ + 1,
                       !.line = IF char = "\n" THEN @ + 1 ELSE @,
                       !.column = IF char = "\n" THEN 1 ELSE @ + 1]

\* In the operators below the Lexer object an operator is applied to is
\* named `self`; `lx \in {self}` names its value, so that it is computed
\* once however often the body reads it.
RECURSIVE skip_whitespace(_)
skip_whitespace(self) ==
    CHOOSE after \in {
        IF peek(lx, 0) \in {" ", "\t", "\r", "\n"}
        THEN skip_whitespace(advance(lx)) ELSE lx : lx \in {self}} : TRUE

\* the loop of skip_single_line_comment
RECURSIVE skip_line(_)
skip_line(self) ==
    CHOOSE after \in {
        IF peek(lx, 0) # NoChar /\ peek(lx, 0) # "\n" THEN skip_line(advance(lx))
        ELSE lx : lx \in {self}} : TRUE

\* a comment skipper that consumes nothing
skip_single_line_comment_idle(lx) == lx

skip_single_line_comment(lx) == skip_line(advance(advance(lx)))

\* the loop of skip_multi_line_comment
RECURSIVE skip_comment(_)
skip_comment(self) ==
    CHOOSE after \in {
        IF peek(lx, 0) = NoChar
        THEN Lexer_error(lx, "Unterminated multi-line comment")
        ELSE IF peek(lx, 0) = "*" /\ peek(lx, 1) = "/" THEN advance(advance(lx))
        ELSE skip_comment(advance(lx)) : lx \in {self}} : TRUE

skip_multi_line_comment(lx) == skip_comment(advance(advance(lx)))

\* the loop and the return of read_number
RECURSIVE number_from(_, _, _, _)
number_from(self, num_str, is_float, start) ==
    CHOOSE after \in {
        LET c == peek(lx, 0)
        IN IF c \in Digits \/ c = "."
           THEN IF c = "." /\ is_float
                THEN Lexer_error(lx, "Invalid number format: multiple decimal points")
                ELSE number_from(advance(lx), num_str \o c, is_float \/ c = ".", start)
           ELSE [lx EXCEPT !.tokens = Append(@,
                    IF is_float
                    THEN Token("FLOAT_LITERAL", [k |-> "float", n |-> 0, s |-> num_str],
                               start.line, start.column)
                    ELSE Token("INT_LITERAL", PyInt(ParseInt(num_str)),
                               start.line, start.column))] : lx \in {self}} : TRUE

read_number(lx) == number_from(lx, "", FALSE, lx)

\* the character an escape sequence stands for
escaped(next_char) ==
    CASE next_char = "n" -> "\n"
      [] next_char = "t" -> "\t"
      [] OTHER -> next_char

\* the loop and the end of read_string; a backslash that is the last
\* character of the source makes `string_value += next_char` add None
RECURSIVE string_from(_, _, _)
string_from(self, string_value, start) ==
    CHOOSE after \in {
        LET c == peek(lx, 0)
        IN IF c # NoChar /\ c # "\""
           THEN IF c = "\\"
                THEN LET next_char == peek(advance(lx), 0)
                     IN IF next_char = NoChar
                        THEN [advance(lx) EXCEPT !.err = Exception("TypeError",
                                "can only concatenate str (not \"NoneType\") to str")]
                        ELSE string_from(advance(advance(lx)),
                                         string_value \o escaped(next_char), start)
                ELSE string_from(advance(lx), string_value \o c, start)
           ELSE IF c = NoChar THEN Lexer_error(lx, "Unterminated string literal")
           ELSE [advance(lx) EXCEPT !.tokens = Append(@,
                    Token("STRING_LITERAL", PyStr(string_value),
                          start.line, start.column))] : lx \in {self}} : TRUE

read_string(lx) == string_from(advance(lx), "", lx)

\* the loop and the return of read_identifier
RECURSIVE identifier_from(_, _, _)
identifier_from(self, identifier, start) ==
    CHOOSE after \in {
        LET c == peek(lx, 0)
        IN IF c \in Letters \cup Digits \cup {"_"}
           THEN identifier_from(advance(lx), identifier \o c, start)
           ELSE [lx EXCEPT !.tokens = Append(@,
                    CASE identifier = "true" ->
                            Token("BOOL_LITERAL", PyBool(TRUE), start.line, start.column)
                      [] identifier = "false" ->
                            Token("BOOL_LITERAL", PyBool(FALSE), start.line, start.column)
                      [] identifier \in KEYWORDS ->
                            Token(identifier, PyStr(identifier), start.line, start.column)
                      [] OTHER ->
                            Token("IDENTIFIER", PyStr(identifier),
                                  start.line, start.column))] : lx \in {self}} : TRUE

read_identifier(lx) == identifier_from(lx, "", lx)

\* the operator and delimiter branches of tokenize: one character, or two
\* when the second one is `follow`
operator(lx, char, follow) ==
    LET l == advance(lx)
        text == IF follow # NoChar /\ peek(l, 0) = follow THEN char \o follow ELSE char
        after == IF text = char THEN l ELSE advance(l)
    IN IF text = "!" THEN Lexer_error(l, "Unexpected character: " \o char)
       ELSE [after EXCEPT !.tokens = Append(@,
                Token(text, PyStr(text), lx.line, lx.column))]

\* one iteration of the loop of tokenize
tokenize_iteration(self) ==
    CHOOSE after \in {
        LET char == peek(l, 0)
        IN IF l.pos >= Len(l.source) THEN l
           ELSE IF char = "/" /\ peek(l, 1) = "/" THEN skip_single_line_comment(l)
           ELSE IF char = "/" /\ peek(l, 1) = "*" THEN skip_multi_line_comment(l)
           ELSE IF char \in Digits THEN read_number(l)
           ELSE IF char = "\"" THEN read_string(l)
           ELSE IF char \in Letters \cup {"_"} THEN read_identifier(l)
           ELSE IF char = "*" THEN operator(l, char, "*")
           ELSE IF char \in {"=", "!", "<", ">"} THEN operator(l, char, "=")
           ELSE IF char \in {"+", "-", "/", "%", "(", ")", "{", "}", "[", "]", ";",
                             ",", ":"}
           THEN operator(l, char, NoChar)
           ELSE Lexer_error(l, "Unexpected character: " \o char)
        : l \in {skip_whitespace(self)}} : TRUE

\* the source strings of the lexer: every concatenation of at most MaxSource
\* of the Pieces
Pieces ==
    {" ", "\n", "/", "*", "//", "/*", "*/", "\"", "\\", "1", ".", "n", "!", "="}
RECURSIVE SourceTexts(_)
SourceTexts(n) ==
    IF n = 0 THEN {""}
    ELSE LET shorter == SourceTexts(n - 1)
         IN shorter \cup {s \o c : s \in shorter, c \in Pieces}
LexerSources == SourceTexts(MaxSource)

LexerInit ==
    /\ source = [chars |-> "text", tokens |-> "none", program |-> NoNode]
    /\ lexer = NoLexer
    /\ analyzer = SemanticAnalyzer
    /\ optimize = FALSE
    /\ phase = "source"
    /\ ast = NoNode
    /\ ir = <<>>
    /\ code = <<>>
    /\ pc = 0
    /\ variables = NoDict
    /\ heap = <<>>
    /\ call_stack = <<>>
    /\ output = <<>>
    /\ steps = 0
    /\ last = NoStep
    /\ called = <<>>
    /\ raised = NoException
    /\ result = None_

\* lexer = Lexer(source_code), for any source text
Construction ==
    /\ phase = "source"
    /\ \E s \in LexerSources : lexer' = Lexer(s)
    /\ phase' = "tokenize"
    /\ UNCHANGED <<source, called, analyzer, optimize, ast, ir, code, pc, variables, heap,
                   call_stack, output, steps, last, raised, result>>

\* while self.pos < len(self.source): one iteration
TokenizeIteration ==
    /\ phase = "tokenize"
    /\ lexer.pos < Len(lexer.source)
    /\ LET after == tokenize_iteration(lexer)
       IN /\ lexer' = after
          /\ raised' = after.err
          /\ phase' = IF after.err # NoException THEN "raised" ELSE phase
    /\ UNCHANGED <<source, called, analyzer, optimize, ast, ir, code, pc, variables, heap,
                   call_stack, output, steps, last, result>>

\* the loop has ended: the EOF token is added and self.tokens returned
TokenizeReturn ==
    /\ phase = "tokenize"
    /\ lexer.pos >= Len(lexer.source)
    /\ lexer' = [lexer EXCEPT !.tokens = Append(@,
                    Token("EOF", None_, lexer.line, lexer.column))]
    /\ phase' = "returned"
    /\ UNCHANGED <<source, called, analyzer, optimize, ast, ir, code, pc, variables, heap,
                   call_stack, output, steps, last, raised, result>>

LexerNext == Construction \/ TokenizeIteration \/ TokenizeReturn

\* the loop of tokenize keeps running once it has been entered
LexerSpec ==
    LexerInit /\ [][LexerNext]_vars /\ WF_vars(TokenizeIteration \/ TokenizeReturn)

(***************************************************************************)
(* The interpreter on its own: Interpreter(code) about to execute one      *)
(* array instruction, with variables that hold two names of one list, an   *)
(* empty list, an int and a string, and an index variable i of any kind.   *)
(***************************************************************************)
ArrayNames == {"a", "b", "e", "n", "s", "u"}
IndexOperands == {"i", "0", "1", "2", "true", "u"}
IndexValues ==
    {PyInt(0 - 1), PyInt(0), PyInt(1), PyInt(2), PyBool(TRUE), PyStr("k"), None_}
ArrayInstructions ==
    {ThreeAddressCode("array_get", PyStr(x), PyStr(j), PyStr("t0")) :
        x \in ArrayNames, j \in IndexOperands}
    \cup {ThreeAddressCode("array_set", PyStr(j), PyStr(v), PyStr(x)) :
        x \in ArrayNames, j \in IndexOperands, v \in {"9", "n"}}
ArrayVariables(i) ==
    [x \in {"a", "b", "e", "n", "s", "i"} |->
        CASE x \in {"a", "b"} -> PyList(1)
          [] x = "e" -> PyList(2)
          [] x = "n" -> PyInt(7)
          [] x = "s" -> PyStr("ab")
          [] OTHER -> i]

MachineInit ==
    /\ source = [chars |-> "legal", tokens |-> "grammatical", program |-> NoNode]
    /\ lexer = NoLexer
    /\ analyzer = SemanticAnalyzer
    /\ optimize = FALSE
    /\ phase = "interpreter"
    /\ ast = NoNode
    /\ \E instr \in ArrayInstructions : ir = <<instr>> /\ code = <<instr>>
    /\ pc = 0
    /\ \E i \in IndexValues : variables = ArrayVariables(i)
    /\ heap = << <<PyInt(4), PyInt(5)>>, <<>> >>
    /\ call_stack = <<>>
    /\ output = <<>>
    /\ steps = 0
    /\ last = NoStep
    /\ called = <<>>
    /\ raised = NoException
    /\ result = None_

MachineNext == Execution \/ Completion

MachineSpec == MachineInit /\ [][MachineNext]_vars

(***************************************************************************)
(* The symbol tables on their own: a SemanticAnalyzer whose scope chain is *)
(* driven by enter_scope, exit_scope, define and lookup in any order, over *)
(* two names and two kinds of symbol.  `last` records the call just made   *)
(* and the chain it was made on; `result` is what lookup returned.         *)
(***************************************************************************)
MaxScopes == 3
ScopeNames == {"x", "y"}
ScopeSymbols == {Symbol("variable", "int", <<>>), Symbol("function", "bool", <<>>)}
ScopeCall(op, name, sym) ==
    [op |-> op, name |-> name, symbol |-> sym, scopes |-> analyzer.scopes]

ScopeInit ==
    /\ source = [chars |-> "legal", tokens |-> "grammatical", program |-> NoNode]
    /\ lexer = NoLexer
    /\ analyzer = SemanticAnalyzer
    /\ optimize = FALSE
    /\ phase = "analyzer"
    /\ ast = NoNode
    /\ ir = <<>>
    /\ code = <<>>
    /\ pc = 0
    /\ variables = NoDict
    /\ heap = <<>>
    /\ call_stack = <<>>
    /\ output = <<>>
    /\ steps = 0
    /\ last = NoStep
    /\ called = <<>>
    /\ raised = NoException
    /\ result = None_

\* self.enter_scope()
EnterScope ==
    /\ Len(analyzer.scopes) < MaxScopes
    /\ analyzer' = enter_scope(analyzer)
    /\ last' = ScopeCall("enter_scope", "", NoNode)
    /\ raised' = NoException
    /\ result' = None_
    /\ UNCHANGED <<source, called, lexer, optimize, phase, ast, ir, code, pc, variables, heap,
                   call_stack, output, steps>>

\* self.exit_scope()
ExitScope ==
    /\ analyzer' = exit_scope(analyzer)
    /\ last' = ScopeCall("exit_scope", "", NoNode)
    /\ raised' = NoException
    /\ result' = None_
    /\ UNCHANGED <<source, called, lexer, optimize, phase, ast, ir, code, pc, variables, heap,
                   call_stack, output, steps>>

\* self.current_scope.define(name, ...): the tables after the call and the
\* SemanticError it raised, if any
Define ==
    /\ \E name \in ScopeNames, sym \in ScopeSymbols :
          LET after == define(analyzer, name, sym)
          IN /\ analyzer' = [after EXCEPT !.err = ""]
             /\ raised' = IF after.err # ""
                          THEN Exception("SemanticError", after.err)
                          ELSE NoException
             /\ last' = ScopeCall("define", name, sym)
    /\ result' = None_
    /\ UNCHANGED <<source, called, lexer, optimize, phase, ast, ir, code, pc, variables, heap,
                   call_stack, output, steps>>

\* self.current_scope.lookup(name)
Lookup ==
    /\ \E name \in ScopeNames :
          /\ result' = lookup(analyzer, name)
          /\ last' = ScopeCall("lookup", name, NoNode)
    /\ raised' = NoException
    /\ UNCHANGED <<source, called, lexer, analyzer, optimize, phase, ast, ir, code, pc,
                   variables, heap, call_stack, output, steps>>

ScopeNext == EnterScope \/ ExitScope \/ Define \/ Lookup

ScopeSpec == ScopeInit /\ [][ScopeNext]_vars

(***************************************************************************)
(* Properties.                                                             *)
(***************************************************************************)
Lowered == ir # <<>>
Running == phase = "interpreter"
Top(stack) == stack[Len(stack)]
LastInstr == InstrAt(code, last.pc)

\* C1: optimization preserves the output: when compile_and_run has run the
\* optimized code of an accepted program to its end (normally or by a run-time
\* error), the output equals the output Interpreter.execute produces on the
\* generated code, whenever that execution ends within MaxSteps instructions.
C1_OptimizedOutputEqualsGenerated ==
    (phase = "returned" /\ optimize /\ Lowered) =>
        LET reference == execute(ir, Interpreter, MaxSteps)
        IN (reference.err # "" \/ reference.pc >= Len(ir)) =>
               output = reference.output

\* the operands of the `need` param instructions that generate_FunctionCall
\* emitted for one call, found scanning backwards from index i: the params of
\* a nested call (an argument that is itself a call) belong to that call
RECURSIVE arg_operands(_, _, _, _, _)
arg_operands(c, i, need, skip, acc) ==
    IF need = 0 \/ i < 0 THEN acc
    ELSE IF InstrAt(c, i).op = "call"
    THEN arg_operands(c, i - 1, need, skip + InstrAt(c, i).arg2.n, acc)
    ELSE IF InstrAt(c, i).op = "param"
    THEN IF skip > 0 THEN arg_operands(c, i - 1, need, skip - 1, acc)
         ELSE arg_operands(c, i - 1, need - 1, skip, <<InstrAt(c, i).arg1>> \o acc)
    ELSE arg_operands(c, i - 1, need, skip, acc)

\* C2: argument passing: after `call name, n` has executed, the pushed frame
\* holds exactly the values of the call's n argument operands in order, and
\* after the callee's k-th param_decl has executed its parameter name is bound
\* to the k-th of them.
C2_FrameHoldsTheArguments ==
    /\ (Running /\ last.op = "call") =>
          LET n == LastInstr.arg2.n
              args == arg_operands(code, last.pc - 1, n, 0, <<>>)
              frame == Top(call_stack)
          IN /\ Len(frame.params) = n
             /\ \A k \in 1..n :
                    frame.params[k] = get_value(args[k], last.variables).val
    /\ (Running /\ last.op = "param_decl" /\ last.call_stack # <<>>) =>
          LET frame == Top(last.call_stack)
              call_instr == InstrAt(code, frame.return_address - 1)
              k == last.pc - functions(code)[call_instr.arg1.s] + 1
              name == LastInstr.arg1.s
          IN /\ k <= Len(frame.params)
             /\ name \in DOMAIN variables
             /\ variables[name] = frame.params[k]

\* C3: return resumes the caller: after a return has executed with a non-empty
\* call stack, the frame is popped, variables is the frame's saved variables
\* with a present return value written to the result name of the originating
\* call, and the next instruction to execute is the one at the frame's return
\* address.
C3_ReturnResumesAtReturnAddress ==
    (Running /\ last.op = "return" /\ last.call_stack # <<>>) =>
        LET frame == Top(last.call_stack)
            call_instr == InstrAt(code, frame.return_address - 1)
            value == get_value(LastInstr.arg1, last.variables).val
        IN /\ call_stack = SubSeq(last.call_stack, 1, Len(last.call_stack) - 1)
           /\ variables = IF IsNone(value) THEN frame.saved_vars
                          ELSE DictSet(frame.saved_vars, call_instr.result.s, value)
           /\ pc = frame.return_address

\* C4: call enters the callee: after `call name, n` has executed for a name in
\* the function table, the next instruction to execute is the one at the
\* function's entry index, wherever the call instruction is.
C4_CallEntersAtEntryIndex ==
    (Running /\ last.op = "call" /\ InDict(LastInstr.arg1, functions(code))) =>
        pc = functions(code)[LastInstr.arg1.s]

\* C5: the combined optimizer pass is idempotent on generated IR: optimizing
\* the optimized code again gives the same instruction list.
C5_OptimizeIsIdempotent ==
    (phase = "optimizer" /\ Lowered) => Optimize(Optimize(ir)) = Optimize(ir)

JumpOps == {"goto", "if_false", "if_true"}
jumps(c) == {i \in 1..Len(c) : c[i].op \in JumpOps}
labels_named(c, l) == {j \in 1..Len(c) : c[j].op = "label" /\ c[j].result = l}

\* C6: in generated IR every label named by a goto, if_false or if_true
\* appears exactly once as a label instruction, so find_label finds it.
C6_JumpLabelsAreUnique ==
    \A i \in jumps(ir) :
        /\ Cardinality(labels_named(ir, ir[i].result)) = 1
        /\ find_label(ir, ir[i].result) >= 0

\* nested control statements were lowered and a jump back to a loop start has
\* just been resolved by find_label
C6_Witness ==
    /\ Running /\ ~optimize
    /\ Cardinality(jumps(ir)) >= 4
    /\ last.op = "goto"
    /\ pc < last.pc

\* the number of function definitions open after the first i instructions
marker_depth(c, i) ==
    Cardinality({j \in 1..i : c[j].op = "begin_func"})
    - Cardinality({j \in 1..i : c[j].op = "end_func"})

\* C7: in the IR generated for an accepted program function definitions are
\* not nested: no begin_func occurs between a begin_func and its matching
\* end_func.
C7_FunctionsAreNotNested ==
    \A i \in 1..Len(ir) : ir[i].op = "begin_func" => marker_depth(ir, i - 1) = 0

\* whether the markers from instruction i on close the open definitions `open`
\* (innermost last) and each other, each end_func naming what it closes
RECURSIVE well_bracketed_from(_, _, _)
well_bracketed_from(c, i, open) ==
    IF i > Len(c) THEN open = <<>>
    ELSE IF c[i].op = "begin_func"
    THEN well_bracketed_from(c, i + 1, Append(open, c[i].arg1))
    ELSE IF c[i].op = "end_func"
    THEN /\ open # <<>>
         /\ Top(open) = c[i].arg1
         /\ well_bracketed_from(c, i + 1, SubSeq(open, 1, Len(open) - 1))
    ELSE well_bracketed_from(c, i + 1, open)

markers(c) == SelectSeq(c, LAMBDA instr : instr.op \in {"begin_func", "end_func"})

\* C8: the begin_func / end_func markers of generated IR are well bracketed,
\* each end_func naming the begin_func it closes, and the code the optimizer
\* returns has the same markers in the same order.
C8_MarkersBalancedAndKept ==
    Lowered =>
        /\ well_bracketed_from(ir, 1, <<>>)
        /\ phase \in {"interpreter", "returned"} =>
               /\ markers(code) = markers(ir)
               /\ well_bracketed_from(code, 1, <<>>)

\* C9: variables holds only the current activation's bindings: when a call has
\* just entered a callee, which has bound nothing yet, no name bound by the
\* caller is in the map.
C9_CalleeStartsWithoutCallerBindings ==
    (Running /\ last.op = "call") =>
        DOMAIN variables \cap DOMAIN Top(call_stack).saved_vars = {}

\* C10: errors short-circuit the pipeline: once lexing, parsing or semantic
\* analysis has raised, compile_and_run has returned False, no IR was
\* generated, no code was handed to the interpreter, no instruction was
\* executed and nothing was printed.
C10_FrontEndErrorsShortCircuit ==
    raised.type \in {"SyntaxError", "SemanticError"} =>
        /\ phase = "returned"
        /\ result = PyBool(FALSE)
        /\ ir = <<>>
        /\ code = <<>>
        /\ steps = 0
        /\ output = <<>>

\* the analyzer rejected a parsed program and compile_and_run returned
C10_Witness ==
    /\ raised.type = "SemanticError"
    /\ ast # NoNode
    /\ phase = "returned"

\* instruction i of c is, for constant folding, a division or a modulo by the
\* constant 0: its right operand is the literal 0 or a name the constants
\* table maps to 0
divides_by_constant_zero(c, i) ==
    /\ c[i].op \in {"/", "%"}
    /\ LET arg2_val == constant_of(c[i].arg2, constants_at(c, i))
       IN IsNum(arg2_val) /\ arg2_val.n = 0

\* C11: division or modulo by a zero constant is never folded: constant
\* folding emits every `/` or `%` whose right operand is the constant 0
\* (directly or through the constants table) unchanged, and when the VM has
\* executed such an instruction it has raised "Division by zero" (resp.
\* "Modulo by zero") and stored nothing.
C11_ZeroDivisionIsKeptAndRaises ==
    /\ Lowered =>
          \A i \in 1..Len(ir) :
              divides_by_constant_zero(ir, i) => constant_folding(ir)[i] = ir[i]
    /\ (~optimize /\ last # NoStep /\ divides_by_constant_zero(ir, last.pc + 1)) =>
          /\ raised.message = IF last.op = "/" THEN "Division by zero"
                              ELSE "Modulo by zero"
          /\ variables = last.variables

\* C12: semantic analysis is idempotent: a second analyze of the same AST ends
\* as the first did, in success both times or in the same error both times.
C12_AnalysisIsIdempotent ==
    ast # NoNode => SecondSemanticErrorOf(ast) = SemanticErrorOf(ast)

\* the operands of the array instruction just executed, read in the state
\* before it: the base, the index and, for array_set, the value
LastBase ==
    LET name == IF last.op = "array_get" THEN LastInstr.arg1 ELSE LastInstr.result
    IN IF name.s \in DOMAIN last.variables THEN last.variables[name.s] ELSE None_
LastIndex ==
    LET operand == IF last.op = "array_get" THEN LastInstr.arg2 ELSE LastInstr.arg1
        read == get_value(operand, last.variables)
    IN IF read.raised THEN None_ ELSE read.val
LastStored == get_value(LastInstr.arg2, last.variables).val
\* the instruction may touch the array: a list, an int index (bool is an
\* int), 0 <= index < len
InsideTheArray ==
    /\ IsList(LastBase)
    /\ LastIndex.k \in {"int", "bool"}
    /\ 0 <= LastIndex.n /\ LastIndex.n < Len(last.heap[LastBase.n])

\* C13: array_get and array_set never read or write outside the array: when
\* the base is not a list, the index is not an int or the index is not in
\* 0 <= index < len, the instruction raised a runtime error and left every
\* list and `variables` as they were; otherwise array_get stored exactly
\* element `index` in its result and changed nothing else, and array_set
\* replaced exactly element `index` of that list and changed nothing else.
C13_ArrayAccessStaysInside ==
    (last # NoStep /\ last.op \in {"array_get", "array_set"}) =>
        IF ~InsideTheArray
        THEN /\ raised.type = "RuntimeError"
             /\ heap = last.heap
             /\ variables = last.variables
        ELSE /\ raised = NoException
             /\ IF last.op = "array_get"
                THEN /\ heap = last.heap
                     /\ DOMAIN variables = DOMAIN last.variables \cup {LastInstr.result.s}
                     /\ \A x \in DOMAIN variables :
                           variables[x] =
                               IF x = LastInstr.result.s
                               THEN last.heap[LastBase.n][LastIndex.n + 1]
                               ELSE last.variables[x]
                ELSE /\ variables = last.variables
                     /\ Len(heap) = Len(last.heap)
                     /\ \A b \in 1..Len(heap) :
                           /\ Len(heap[b]) = Len(last.heap[b])
                           /\ \A j \in 1..Len(heap[b]) :
                                 heap[b][j] =
                                     IF b = LastBase.n /\ j = LastIndex.n + 1
                                     THEN LastStored ELSE last.heap[b][j]

\* array_set has replaced an element of a list that two variables name
C13_Witness ==
    /\ last.op = "array_set"
    /\ raised = NoException
    /\ variables["a"] = variables["b"]
    /\ heap[1] # last.heap[1]

\* C14: the lexer terminates on every finite source string: every iteration
\* of the loop of tokenize consumes at least one character or raises, the
\* loop ends, and on success the tokens are a finite sequence that holds
\* exactly one EOF token, its last element.
C14_TokenizeTerminates ==
    /\ [][(phase = "tokenize" /\ lexer.pos < Len(lexer.source)) =>
             (lexer'.pos > lexer.pos \/ phase' = "raised")]_vars
    /\ (phase = "tokenize") ~> (phase \in {"returned", "raised"})
    /\ [](phase = "returned" =>
             /\ lexer.tokens # <<>>
             /\ \A i \in 1..Len(lexer.tokens) :
                   lexer.tokens[i].type = "EOF" <=> i = Len(lexer.tokens))

\* tokenize has returned after skipping a comment and a line break and
\* reading a token
C14_Witness ==
    /\ phase = "returned"
    /\ Len(lexer.tokens) >= 2
    /\ lexer.line > 1
    /\ \E i \in 1..Len(lexer.source) - 1 : SubSeq(lexer.source, i, i + 1) = "//"

\* the string literal whose characters start at position i of s (after the
\* opening quote) is closed: a quote that no backslash escapes follows
RECURSIVE closed_from(_, _)
closed_from(s, i) ==
    IF i > Len(s) THEN FALSE
    ELSE IF CharAt(s, i) = "\\" THEN closed_from(s, i + 2)
    ELSE IF CharAt(s, i) = "\"" THEN TRUE
    ELSE closed_from(s, i + 1)

\* the next token of the lexer is a string literal that is never closed
AtUnterminatedString ==
    /\ phase = "tokenize"
    /\ peek(skip_whitespace(lexer), 0) = "\""
    /\ ~closed_from(lexer.source, skip_whitespace(lexer).pos + 2)

\* C15: a double-quoted string that is opened and not closed before the end
\* of the input, whatever characters and escape sequences follow the opening
\* quote, makes tokenize raise the lexical error "Unterminated string
\* literal", which carries the line and the column.
C15_UnterminatedStringIsALexicalError ==
    [][AtUnterminatedString =>
          /\ phase' = "raised"
          /\ raised'.type = "SyntaxError"
          /\ \E l \in 1..(MaxSource + 1), c \in 1..(2 * MaxSource + 1) :
                raised'.message = "Lexical error at line " \o PyToStr(PyInt(l))
                    \o ", column " \o PyToStr(PyInt(c))
                    \o ": Unterminated string literal"]_vars

\* the instruction just executed is one constant folding handles, and the
\* constants table holds an int for both of its operands, the right one not
\* a zero divisor
LastHasIntConstants ==
    /\ last # NoStep
    /\ last.op \in FoldedOps
    /\ LET constants == constants_at(code, last.pc + 1)
           arg1_val == constant_of(LastInstr.arg1, constants)
           arg2_val == constant_of(LastInstr.arg2, constants)
       IN /\ arg1_val.k = "int" /\ arg2_val.k = "int"
          /\ ~(last.op \in {"/", "%"} /\ arg2_val.n = 0)

\* C16: integer constant folding matches execution: when the VM has executed
\* an instruction of the generated code whose operator is one of
\* + - * / % ** < > <= >= == != and whose operands are int constants for the
\* folder (the divisor not zero), constant folding has rewritten that
\* instruction to `assign` of exactly the value the VM has stored in its
\* result.
C16_FoldingMatchesExecution ==
    (~optimize /\ LastHasIntConstants) =>
        LET folded == constant_folding(code)[last.pc + 1]
        IN /\ raised = NoException
           /\ folded.op = "assign"
           /\ folded.result = LastInstr.result
           /\ folded.arg2 = None_
           /\ variables[LastInstr.result.s] = folded.arg1

\* the VM has divided a negative int by a positive one that does not divide it
C16_Witness ==
    /\ ~optimize /\ LastHasIntConstants
    /\ last.op = "/"
    /\ last.variables["a"] = PyInt(0 - 3) /\ last.variables["b"] = PyInt(2)
    /\ variables[LastInstr.result.s] = PyInt(0 - 2)

\* the names that constant folding replaces by a recorded constant in
\* instruction i of c: the operands found in the constants table when the
\* pass rewrites the instruction
replaced_names(c, i) ==
    LET constants == constants_at(c, i)
    IN IF fold_instr(c[i], constants).instr = c[i] THEN {}
       ELSE {arg \in {c[i].arg1, c[i].arg2} : InDict(arg, constants)}

\* C17: constant folding never propagates a constant across a control-flow
\* boundary: whenever the pass replaces a name by a recorded constant in an
\* instruction, that name holds that constant each time the VM reaches the
\* instruction.
C17_RecordedConstantsHold ==
    (~optimize /\ last # NoStep) =>
        \A arg \in replaced_names(code, last.pc + 1) :
            /\ arg.s \in DOMAIN last.variables
            /\ last.variables[arg.s] = constants_at(code, last.pc + 1)[arg.s]

\* instruction instr writes the variable x: x is its result, or the
\* parameter that param_decl binds
writes(instr, x) ==
    \/ /\ instr.op \notin ControlOps \cup {"param_decl", "begin_func", "end_func"}
       /\ instr.result = PyStr(x)
    \/ instr.op = "param_decl" /\ instr.arg1 = PyStr(x)

\* the instruction of c before i that recorded the entry of x in copies
recorded(c, i, x) ==
    LET records == {j \in 1..(i - 1) :
                       /\ c[j].op = "assign" /\ c[j].result = PyStr(x)
                       /\ IsStr(c[j].arg1) /\ ~is_constant(c[j].arg1)}
    IN CHOOSE j \in records : \A k \in records : k <= j

\* C18: copy propagation keeps its table sound: when the scan of the pass
\* (over the code constant folding hands it) reaches an instruction, no
\* entry x -> y of `copies` has had x or y written since the instruction
\* that recorded it.
C18_CopiesAreSound ==
    (phase = "optimizer" /\ optimize) =>
        LET c == constant_folding(code)
        IN \A i \in 1..(Len(c) + 1) :
              LET copies == copies_at(c, i)
              IN \A x \in DOMAIN copies :
                    \A k \in (recorded(c, i, x) + 1)..(i - 1) :
                        ~writes(c[k], x) /\ ~writes(c[k], copies[x])

\* the names an instruction reads: its operands that are no constants, both
\* elements of builtin_substr's (start, end) pair included
operand_names(instr) ==
    LET operands ==
            {instr.arg1, instr.arg2}
            \cup (IF instr.arg2.k = "tuple"
                  THEN {PyStr(SubSeq(instr.arg2.s, 1, instr.arg2.n)),
                        PyStr(SubSeq(instr.arg2.s, instr.arg2.n + 2,
                                     Len(instr.arg2.s)))}
                  ELSE {})
    IN {o.s : o \in {x \in operands : IsStr(x) /\ x.s # "" /\ ~is_constant(x)}}

\* C19: the `used` set of dead-code elimination holds every name that is an
\* operand of an instruction of the code the pass is given, both elements of
\* builtin_substr's start/end pair included, so the pass removes no
\* instruction that defines a name read by an instruction it keeps.
C19_UsedHoldsEveryOperand ==
    (phase = "optimizer" /\ optimize) =>
        LET c == copy_propagation(constant_folding(code))
            used == used_vars(c)
        IN /\ \A i \in 1..Len(c) : operand_names(c[i]) \subseteq used
           /\ \A i, j \in 1..Len(c) :
                 (~keeps(c[i], used) /\ keeps(c[j], used)) =>
                     c[i].result.s \notin operand_names(c[j])

\* C20: constant folding tells unary from binary `-` by the absence of arg2:
\* a `-` or `not` instruction without arg2 whose operand is a constant c is
\* rewritten to `assign` of -c (resp. not c), and a `-` instruction with two
\* operands is left as it is or rewritten to `assign` of their difference.
C20_UnaryIsFoldedApartFromBinary ==
    (phase = "optimizer" /\ optimize) =>
        \A i \in 1..Len(code) :
            LET instr == code[i]
                constants == constants_at(code, i)
                c == constant_of(instr.arg1, constants)
                d == constant_of(instr.arg2, constants)
                folded == constant_folding(code)[i]
            IN /\ (instr.op \in {"-", "not"} /\ instr.arg2 = None_ /\ c # None_) =>
                     folded = ThreeAddressCode("assign",
                                  IF instr.op = "-" THEN PyInt(0 - c.n)
                                  ELSE PyBool(~Truthy(c)),
                                  None_, instr.result)
               /\ (instr.op = "-" /\ instr.arg2 # None_) =>
                     \/ folded = instr
                     \/ /\ IsNum(c) /\ IsNum(d)
                        /\ folded = ThreeAddressCode("assign", PyInt(c.n - d.n),
                                                     None_, instr.result)

\* the index of the end_func that closes the begin_func at index b of c: the
\* first end_func after it up to which the markers from b on balance; Len(c)
\* when nothing closes it
matching_end(c, b) ==
    LET begins(j) == Cardinality({k \in b..j : InstrAt(c, k).op = "begin_func"})
        ends(j) == Cardinality({k \in b..j : InstrAt(c, k).op = "end_func"})
        closing == {j \in (b + 1)..(Len(c) - 1) :
                       InstrAt(c, j).op = "end_func" /\ begins(j) = ends(j)}
    IN IF closing = {} THEN Len(c)
       ELSE CHOOSE j \in closing : \A k \in closing : j <= k

\* index i of c is in the definition that the begin_func at index b opens:
\* its param_decls, its body or its end_func
in_definition(c, b, i) ==
    /\ b < i /\ i < Len(c)
    /\ InstrAt(c, b).op = "begin_func"
    /\ i <= matching_end(c, b)

\* C21: executing begin_func in straight-line flow sets pc to the index just
\* after the end_func that matches it, nested begin_func / end_func pairs
\* counted, and changes nothing else; so control enters the instructions of a
\* function definition from outside of it only by a call (or by the return
\* that resumes a caller), never by falling into it.
C21_BeginFuncSkipsTheDefinition ==
    last # NoStep =>
        /\ last.op = "begin_func" =>
              /\ pc = matching_end(code, last.pc) + 1
              /\ raised = NoException
              /\ variables = last.variables
              /\ heap = last.heap
              /\ call_stack = last.call_stack
        /\ \A b \in 0..(Len(code) - 1) :
              (in_definition(code, b, pc) /\ ~in_definition(code, b, last.pc)) =>
                  last.op \in {"call", "return"}

\* a begin_func met at the top level has skipped a definition that holds
\* another definition, and landed on the code after it
C21_Witness ==
    /\ last # NoStep /\ last.op = "begin_func"
    /\ \E j \in (last.pc + 1)..(pc - 1) : InstrAt(code, j).op = "begin_func"
    /\ pc < Len(code)
    /\ call_stack = <<>>

\* the function definition with a well-typed return appended to its body
with_return(node) ==
    [node EXCEPT !.body =
        Append(@, ReturnStatement(IF node.return_type = "bool" THEN BoolLit(TRUE)
                                  ELSE IntLit(0)))]
missing_return(node) ==
    "Function '" \o node.name \o "' must return a value of type " \o node.return_type
direct_return(node) ==
    \E k \in 1..Len(node.body) : node.body[k].node = "ReturnStatement"

\* C22: the missing-return check looks at the top level of the body only: a
\* function definition (no function is void) whose analysis finds nothing else
\* wrong, as its analysis with a return appended shows, is rejected with the
\* missing-return error exactly when no direct child of its body is a Return,
\* whatever returns its if, while and for bodies hold; so every top-level
\* function of an accepted program has a direct return.
C22_MissingReturnLooksAtTopLevelOnly ==
    ast # NoNode =>
        \A i \in 1..Len(ast.statements) :
            LET node == ast.statements[i]
                before == analyze_block(SubSeq(ast.statements, 1, i - 1),
                                        SemanticAnalyzer)
                verdict == analyze(node, before).a.err
            IN node.node = "FunctionDef" =>
                  /\ (before.err = "" /\ analyze(with_return(node), before).a.err = "") =>
                        /\ verdict \in {"", missing_return(node)}
                        /\ verdict = missing_return(node) <=>
                              (node.return_type # "void" /\ ~direct_return(node))
                  /\ Lowered => direct_return(node)

\* a function whose only return is inside an if was rejected for having none
C22_Witness ==
    /\ raised.type = "SemanticError"
    /\ ast.statements[1].node = "FunctionDef"
    /\ raised.message = missing_return(ast.statements[1])
    /\ ast.statements[1].body # <<>>
    /\ ast.statements[1].body[1].node = "IfStatement"
    /\ ast.statements[1].body[1].then_block[1].node = "ReturnStatement"

\* the scopes of the chain, innermost last, that bind the name
binders(scopes, name) == {i \in 1..Len(scopes) : name \in DOMAIN scopes[i]}

\* C23: define(name) fails exactly when the name is already in the current
\* scope's own table, whatever the enclosing scopes bind; a failed define
\* leaves every table as it was and a successful one adds exactly the new
\* binding to the current table; lookup(name) returns the binding of the
\* nearest enclosing scope that has one, and None when no scope has one.
C23_DefineChecksTheCurrentScopeOnly ==
    /\ (last # NoStep /\ last.op = "define") =>
          LET depth == Len(last.scopes)
              current == last.scopes[depth]
          IN IF last.name \in DOMAIN current
             THEN /\ raised.type = "SemanticError"
                  /\ analyzer.scopes = last.scopes
             ELSE /\ raised = NoException
                  /\ Len(analyzer.scopes) = depth
                  /\ \A i \in 1..(depth - 1) : analyzer.scopes[i] = last.scopes[i]
                  /\ DOMAIN analyzer.scopes[depth] = DOMAIN current \cup {last.name}
                  /\ \A x \in DOMAIN analyzer.scopes[depth] :
                        analyzer.scopes[depth][x] =
                            IF x = last.name THEN last.symbol ELSE current[x]
    /\ (last # NoStep /\ last.op = "lookup") =>
          LET holders == binders(last.scopes, last.name)
          IN /\ analyzer.scopes = last.scopes
             /\ IF holders = {} THEN result = NoNode
                ELSE \E i \in holders :
                        /\ \A j \in holders : j <= i
                        /\ result = last.scopes[i][last.name]

\* a define has succeeded for a name that an enclosing scope binds to another
\* symbol: the inner scope now shadows it
C23_Witness ==
    /\ last # NoStep /\ last.op = "define"
    /\ raised = NoException
    /\ \E i \in 1..(Len(last.scopes) - 1) :
          /\ last.name \in DOMAIN last.scopes[i]
          /\ last.scopes[i][last.name] # last.symbol
    /\ lookup(analyzer, last.name) = last.symbol

\* every return of the statements is well placed and well typed, as far as
\* its text shows: `type` is the return type of the function definition that
\* lexically encloses the statements, "" when none does; a return needs an
\* enclosing function, a value unless that function is void, and a literal
\* value of the function's type (or an int literal for float)
RECURSIVE returns_fit(_, _)
returns_fit(stmts, type) ==
    \A i \in 1..Len(stmts) :
        LET node == stmts[i]
        IN CASE node.node = "ReturnStatement" ->
                  /\ type # ""
                  /\ node.value = NoNode => type = "void"
                  /\ (node.value # NoNode /\ node.value.node = "Literal") =>
                        \/ node.value.type = type
                        \/ (type = "float" /\ node.value.type = "int")
             [] node.node = "IfStatement" ->
                  returns_fit(node.then_block, type) /\ returns_fit(node.else_block, type)
             [] node.node \in {"WhileStatement", "ForStatement"} ->
                  returns_fit(node.body, type)
             [] node.node = "FunctionDef" -> returns_fit(node.body, node.return_type)
             [] OTHER -> TRUE

\* C24: the analyzer rejects every program that holds a return outside of a
\* function body, also when the return follows a function definition that
\* has been analyzed or sits in the body of a function after a nested
\* definition (current_function is restored), and every program that holds
\* a return whose value does not fit the return type of the enclosing
\* function: no IR is generated for such a program.
C24_MisplacedOrMistypedReturnIsRejected ==
    (ast # NoNode /\ phase # "analyzer" /\ ~returns_fit(ast.statements, "")) =>
        /\ raised.type = "SemanticError"
        /\ analyzer.err # ""
        /\ ir = <<>>

\* a return at the top level that follows a function definition was rejected
\* as being outside of a function
C24_Witness ==
    /\ raised = Exception("SemanticError", "Return statement outside function")
    /\ Len(ast.statements) = 2
    /\ ast.statements[1].node = "FunctionDef"
    /\ ast.statements[2].node = "ReturnStatement"

\* the program is  <type> x = <literal>; <if, while or for whose body starts
\* with a declaration of x>  print(x);
shadows_in_block(p) ==
    /\ Len(p.statements) = 3
    /\ p.statements[1].node = "VarDeclaration"
    /\ p.statements[1].initializer.node = "Literal"
    /\ p.statements[2].node \in {"IfStatement", "WhileStatement", "ForStatement"}
    /\ LET block == IF p.statements[2].node = "IfStatement"
                    THEN p.statements[2].then_block ELSE p.statements[2].body
       IN /\ block # <<>>
          /\ block[1].node = "VarDeclaration"
          /\ block[1].name = p.statements[1].name
    /\ p.statements[3] = PrintStatement(<<Identifier(p.statements[1].name)>>)

\* C25: block scoping agrees between analysis and execution: when the
\* analyzer has accepted a declaration inside an if, while or for body that
\* shadows a variable of the enclosing scope, the value of the enclosing
\* variable printed after the block is the one it had before the block.
C25_ShadowedVariableKeepsItsValue ==
    (phase = "returned" /\ result = PyBool(TRUE) /\ shadows_in_block(ast)) =>
        output = <<PyToStr(ast.statements[1].initializer.value)>>

\* the run-time error is the one get_value raises for a name it cannot resolve
undefined_variable_raised ==
    /\ raised.type = "RuntimeError"
    /\ Len(raised.message) >= 18
    /\ SubSeq(raised.message, 1, 18) = "Undefined variable"

\* C26: no program that the semantic analyzer has accepted raises the
\* run-time error "Undefined variable" when its generated, unoptimized IR is
\* executed: every name the VM resolves has been bound before it is read.
C26_AcceptedProgramsReadBoundNames ==
    (Lowered /\ ~optimize) => ~undefined_variable_raised

\* a value as a program can observe it: a list is its elements, whatever
\* its address
RECURSIVE observed(_, _)
observed(v, h) ==
    IF IsList(v)
    THEN [k |-> "list", elements |-> [i \in 1..Len(h[v.n]) |-> observed(h[v.n][i], h)]]
    ELSE v

\* C27: a call leaves the caller's state intact: when the return that matches
\* a call has executed, every variable the caller had, other than the result
\* name of the call, has the value it had immediately before the call, and a
\* variable that held an array holds an array with the same elements.
C27_CallLeavesTheCallerIntact ==
    [][(/\ phase = "interpreter" /\ steps' = steps + 1
        /\ InstrAt(code, pc).op = "return" /\ call_stack # <<>>
        /\ raised' = NoException) =>
           LET frame == Top(call_stack)
               call_instr == InstrAt(code, frame.return_address - 1)
           IN \A x \in DOMAIN frame.saved_vars \ {call_instr.result.s} :
                 /\ x \in DOMAIN variables'
                 /\ observed(variables'[x], heap')
                        = observed(frame.saved_vars[x], Top(called))]_vars

\* the program with the operands of its equality test exchanged
mirrored(p) ==
    LET test == p.statements[3].initializer
    IN Program(<<p.statements[1], p.statements[2],
                 VarDeclaration("bool", "r",
                                BinaryOp(test.right, test.operator, test.left))>>)

\* C28: the type check of == and != is symmetric: the analyzer accepts
\* a == b (a != b) with a of type A and b of type B exactly when it accepts
\* b == a (b != a).
C28_EqualityCheckIsSymmetric ==
    (phase \notin {"lexer", "parser", "analyzer"} /\ source.program \in EqPrograms) =>
        ((raised.type # "SemanticError") <=> (SemanticErrorOf(mirrored(ast)) = ""))

\* the messages of the run-time errors of arithmetic and of array indexing
is_runtime_error(msg) ==
    \/ msg \in {"Division by zero", "Modulo by zero", "Cannot index non-array type"}
    \/ Len(msg) >= 26 /\ SubSeq(msg, 1, 26) = "Array index out of bounds:"

\* C29: optimization preserves run-time errors: when executing the generated
\* code ends in a run-time error (division or modulo by zero, array index out
\* of bounds, indexing of a non-array), compile_and_run on the optimized code
\* has ended in the same error after the same output.
C29_OptimizationPreservesRuntimeErrors ==
    (phase = "returned" /\ optimize /\ Lowered) =>
        LET reference == execute(ir, Interpreter, MaxSteps)
        IN is_runtime_error(reference.err) =>
               /\ raised = Exception("RuntimeError", reference.err)
               /\ output = reference.output

\* the instruction about to execute is a print whose operand has a value
prints ==
    /\ phase = "interpreter" /\ pc < Len(code) /\ steps < MaxSteps
    /\ InstrAt(code, pc).op = "print"
    /\ ~get_value(InstrAt(code, pc).arg1, variables).raised

\* C30: the captured output is append-only: an executed print appends exactly
\* one entry, the string form of its operand's value, and changes no entry
\* already there; no other step (call and return, which save and restore
\* the variables, among them) adds, removes or changes an entry.
C30_OutputIsAppendOnly ==
    [][IF prints
       THEN output' = Append(output,
                             str(get_value(InstrAt(code, pc).arg1, variables).val, heap))
       ELSE output' = output]_vars

\* a return has restored the caller's variables after the callee printed
C30_Witness ==
    /\ Running /\ last.op = "return" /\ last.call_stack # <<>>
    /\ output # <<>>
    /\ variables # last.variables

====
